---- MODULE Spec2Model ----
(***************************************************************************)
(* State-machine model of the attestation agent core of AegisEdgeAI        *)
(* (hybrid-cloud-poc): the edge filter (wasm-plugin), the delegated        *)
(* certification handler with its rate limiter, and the TPM-lock           *)
(* discipline of the quote, geolocation and certification handlers.        *)
(*                                                                         *)
(* Several specifications share the module; each leaves the variables of  *)
(* the other subsystems unchanged:                                         *)
(*   SpecFilter  the edge filter (both wasm-plugin variants)               *)
(*   SpecCert    certify_app_key, every request shape, the clock standing  *)
(*   SpecRate    check_rate_limit under well-formed requests and a clock   *)
(*   SpecTpm     concurrent request handlers sharing the TPM context lock  *)
(*   SpecReg     the registrar client: version probe, register, activate   *)
(*   SpecStartup the agent's startup: reload or creation of the AK         *)
(*   SpecShutdown the agent's shutdown task and the HTTP server             *)
(*   SpecRetry   one request of the registrar client through its send path *)
(*   SpecDetect  the two detect_geolocation_sensor functions on one host   *)
(*   SpecIma     the IMA locks of concurrent integrity requests            *)
(*   SpecBoot    main from the registration to the running server          *)
(* SpecFilterTimer and SpecShutdownFair add the fairness of the host's     *)
(* timer and of the runtime's scheduling to SpecFilter and SpecShutdown.   *)
(***************************************************************************)
EXTENDS Integers, Sequences, FiniteSets, TLC

VARIABLES
    \* ---- edge filter (wasm-plugin/src/lib.rs) ----
    fVariant,      \* which lib.rs is deployed: "private_cloud" | "onprem"
    fMode,         \* PluginConfig.verification_mode
    fPhase,        \* "idle" | "paused" | "continued" | "responded"
    fReq,          \* the request's certificate input
    fSensorType,   \* SensorVerificationFilter.sensor_type ("none" = None)
    fLocalStatus,  \* status of send_http_response (0 = none sent)
    fDirect,       \* on_http_request_headers returned Action::Continue
    fResumed,      \* resume_http_request was called
    fCalls,        \* the sidecar calls dispatched for this request, in order
    fWait,         \* the host's timer of the dispatched call, in seconds
    fEndpoint,     \* PluginConfig.sidecar_endpoint
    fResp,         \* the sidecar response handed to on_http_call_response
    fCount,        \* HTTP contexts created so far
    \* ---- delegated certification (delegated_certification_handler.rs) ----
    cVariant,      \* "main" (rust-keylime) | "phase3" (code-rollout-phase-3)
    cfgEnabled,    \* unified_identity_enabled / UNIFIED_IDENTITY_ENABLED
    cfgAllowed,    \* delegated_cert_allowed_ips
    cfgLimit,      \* delegated_cert_rate_limit
    cNow,          \* Instant::now(), in seconds
    rateLimiter,   \* RATE_LIMITER: ip -> (count, window start)
    cCalls,        \* history of check_rate_limit calls: ip, time, result
    cLast,         \* the last request and the response it got
    cBudget,       \* requests the behaviour may still be extended to
    cLoaded,       \* transient objects the handler's loads have left in the TPM
    \* ---- TPM context lock (quotes_handler.rs, geolocation_handler.rs, ...) ----
    tVariant,      \* "main" (rust-keylime) | "phase3" (code-rollout-phase-3)
    tUnified,      \* QuoteData.unified_identity_enabled
    tImaFile,      \* QuoteData.ima_ml_file is Some
    tMbFile,       \* QuoteData.measuredboot_ml_file is Some
    tpmLock,       \* holder of QuoteData.tpmcontext ("none" = free)
    tPc,           \* worker -> position in the handler it runs
    tReq,          \* worker -> the request it serves
    tResp,         \* worker -> the response built so far
    pcr15,         \* PCR 15: the digests extended into it, oldest first
    imaLog,        \* IMA log: number of entries (each one extended into PCR 10)
    geoOk,         \* attested_geolocation requests answered 200, oldest first
    tCount,        \* requests started so far
    \* ---- registrar client (keylime/src/registrar_client.rs) ----
    registrar,     \* the registrar the client talks to: what it reports and accepts
    enabled_api_versions,  \* AgentIdentity.enabled_api_versions, oldest first
    client,        \* the RegistrarClient that build returned (or its error)
    lastCall,      \* the last register_agent / activate_agent call and its result
    \* ---- agent startup (main.rs) ----
    tpmSlot,       \* the key held at persistent handle 0x8101000A (0 = none)
    agentData,     \* the AgentData file at agent_data_path
    keysMade,      \* AKs created in the TPM so far; key k is the k-th created
    run,           \* the last startup: its configuration and what it ended with
    \* ---- shutdown (main.rs, shutdown_task) ----
    signalled,     \* the signal received: "none" | "SIGINT" | "SIGTERM"
    server,        \* the HTTP server: "running" | "stopping" | "stopped"
    conns,         \* per connection: "idle" | "queued" | "handling"
    chans,         \* per worker: the messages its channel has received
    shutdownPc,    \* the statement shutdown_task is at
    \* ---- registrar client send path (registrar_client.rs) ----
    rq,             \* the request in progress, its sends and delays
    \* ---- sensor detection (quotes_handler.rs, geolocation_handler.rs) ----
    det,            \* the host's sensor inputs and what each detection returned
    \* ---- IMA locks of the integrity handler (quotes_handler.rs) ----
    mLock,        \* holder of data.ima_ml (state) and of data.ima_ml_file (file)
    mPc,          \* per worker: where its integrity request stands
    mHeld,        \* per worker: the IMA locks it holds, oldest first
    mOffset,      \* MeasurementList: the remembered offset
    mLen,         \* entries in the IMA log file
    mUpdate,      \* the last update of the offset: by whom, under which locks
    mCount,        \* integrity requests started
    \* ---- main.rs: from the registration to the running server ----
    bootCfg,      \* the configuration this start runs under
    bootPc,       \* where main is
    bootReg,      \* how register_agent ended (None: not yet)
    bootLog,      \* errors logged
    bootServed    \* resources the bound server serves

filterVars == <<fVariant, fMode, fPhase, fReq, fSensorType, fLocalStatus,
                fDirect, fResumed, fCalls, fWait, fEndpoint, fResp, fCount>>

certVars == <<cVariant, cfgEnabled, cfgAllowed, cfgLimit, cNow, rateLimiter,
              cCalls, cLast, cBudget, cLoaded>>

tpmVars == <<tVariant, tUnified, tImaFile, tMbFile, tpmLock, tPc, tReq, tResp,
             pcr15, imaLog, geoOk, tCount>>

regVars == <<registrar, enabled_api_versions, client, lastCall>>

agentVars == <<tpmSlot, agentData, keysMade, run>>

shutVars == <<signalled, server, conns, chans, shutdownPc>>

retryVars == <<rq>>

detVars == <<det>>

imaVars == <<mLock, mPc, mHeld, mOffset, mLen, mUpdate, mCount>>

bootVars == <<bootCfg, bootPc, bootReg, bootLog, bootServed>>

vars == <<filterVars, certVars, tpmVars, regVars, agentVars,
         shutVars, retryVars, detVars, imaVars, bootVars>>

\* What each subsystem's actions leave alone.
notFilter == <<certVars, tpmVars, regVars, agentVars, shutVars,
    retryVars, detVars, imaVars, bootVars>>
notCert == <<filterVars, tpmVars, regVars, agentVars, shutVars,
    retryVars, detVars, imaVars, bootVars>>
notTpm == <<filterVars, certVars, regVars, agentVars, shutVars,
    retryVars, detVars, imaVars, bootVars>>
notReg == <<filterVars, certVars, tpmVars, agentVars, shutVars,
    retryVars, detVars, imaVars, bootVars>>
notAgent == <<filterVars, certVars, tpmVars, regVars, shutVars,
    retryVars, detVars, imaVars, bootVars>>
notShut == <<filterVars, certVars, tpmVars, regVars, agentVars,
    retryVars, detVars, imaVars, bootVars>>
notRetry == <<filterVars, certVars, tpmVars, regVars, agentVars,
    shutVars, detVars, imaVars, bootVars>>
notDet == <<filterVars, certVars, tpmVars, regVars, agentVars,
    shutVars, retryVars, imaVars, bootVars>>
notIma == <<filterVars, certVars, tpmVars, regVars, agentVars,
    shutVars, retryVars, detVars, bootVars>>
notBoot == <<filterVars, certVars, tpmVars, regVars, agentVars, shutVars, retryVars, detVars, imaVars>>

None == "none"

\* ------------------------------------------------------------------------
\* Bounds
\* ------------------------------------------------------------------------
MaxChain == 2        \* certificates in a forwarded chain
MaxContexts == 2     \* HTTP contexts (requests) per behaviour
MaxCalls == 4        \* certify_app_key requests per behaviour (SpecRate)
MaxRequests == 2     \* certify_app_key requests per behaviour (SpecCert)
MaxTpmRequests == 2  \* requests to the TPM-using handlers per behaviour (SpecTpm)
MaxIma == 1          \* entries the kernel appends to the IMA log
MaxTime == 62        \* latest clock value, in seconds
MaxEnabled == 2      \* versions in the agent's enabled list
MaxSupported == 2    \* versions in the registrar's supported list
MaxKeys == 3         \* AKs created over the restarts of one behaviour
MaxRetries == 3      \* max_retries of a retry configuration
MaxLines == 2        \* lines of lsusb output

\* ------------------------------------------------------------------------
\* Edge filter: inputs
\* ------------------------------------------------------------------------
\* What one PEM block of the chain holds, as far as the extraction looks:
\*   unparsable     base64 or X.509 parsing fails
\*   no_ext         no extension with an identity OID
\*   bad_json       identity extension whose value is not JSON
\*   no_geo         JSON without "grc.geolocation"
\*   empty_geo      "grc.geolocation" without mobile, gnss or a string sensor_id
\*   nested_mobile  grc.geolocation.mobile present
\*   nested_gnss    grc.geolocation.gnss present (and no mobile)
\*   flat_T         legacy flat schema, sensor_id a string, "type" = T
\*   flat_notype    legacy flat schema, sensor_id a string, no "type"
CertKinds == {"unparsable", "no_ext", "bad_json", "no_geo", "empty_geo",
              "nested_mobile", "nested_gnss", "flat_mobile", "flat_gnss",
              "flat_other", "flat_notype"}

Chains == UNION {[1..n -> CertKinds] : n \in 0..MaxChain}

\* hdr: "absent" (no x-forwarded-client-cert / no peer certificate),
\*      "nocert" (header without Chain= or Cert=), "present"
FilterRequests ==
    {[hdr |-> "absent", chain |-> <<>>], [hdr |-> "nocert", chain |-> <<>>]}
    \cup {[hdr |-> "present", chain |-> c] : c \in Chains}

\* Sidecar responses: status 0 models a missing/unparsable :status header.
Statuses == {0, 200, 403, 500, 503}
\* body: "nobody" (get_http_call_response_body = None), "garbage" (not JSON),
\* or JSON with verification_result vr ("absent" | "true" | "false" |
\* "notbool") and an error field (err).
Bodies == {[kind |-> "nobody", vr |-> "absent", err |-> FALSE],
           [kind |-> "garbage", vr |-> "absent", err |-> FALSE]}
          \cup {[kind |-> "json", vr |-> v, err |-> e] :
                    v \in {"absent", "true", "false", "notbool"}, e \in BOOLEAN}
SidecarResponses == {[status |-> s, body |-> b] : s \in Statuses, b \in Bodies}
NoResp == [status |-> 0, body |-> [kind |-> "unset", vr |-> "absent", err |-> FALSE]]

\* ------------------------------------------------------------------------
\* Edge filter: extraction (pure)
\* ------------------------------------------------------------------------
\* The SensorInfo one certificate yields, or None.  sensor_type is
\* Some("mobile") / Some("gnss") for the nested schema and the "type" string
\* (or None) for the flat schema.
CertSensorType(k) ==
    CASE k = "nested_mobile" -> "mobile"
      [] k = "nested_gnss"   -> "gnss"
      [] k = "flat_mobile"   -> "mobile"
      [] k = "flat_gnss"     -> "gnss"
      [] k = "flat_other"    -> "other"
      [] k = "flat_notype"   -> None
      [] OTHER               -> "noclaim"

CertHasClaim(k) == CertSensorType(k) # "noclaim"

\* extract_sensor_info_from_cert: the first certificate of the chain that
\* yields a claim decides; "noclaim" when none does.
RECURSIVE ExtractFrom(_, _)
ExtractFrom(chain, i) ==
    IF i > Len(chain) THEN "noclaim"
    ELSE IF CertHasClaim(chain[i]) THEN CertSensorType(chain[i])
    ELSE ExtractFrom(chain, i + 1)

extract_sensor_info_from_cert(chain) == ExtractFrom(chain, 1)

\* extract_sensor_id_from_cert (onprem): one certificate, flat sensor_id only.
extract_sensor_id_from_cert(chain) ==
    IF Len(chain) = 0 THEN "noclaim"
    ELSE IF chain[1] \in {"flat_mobile", "flat_gnss", "flat_other", "flat_notype"}
         THEN "id" ELSE "noclaim"

\* ------------------------------------------------------------------------
\* Delegated certification: values
\* ------------------------------------------------------------------------
IPs == {"ipA", "ipB"}
Limits == {0, 1, 2}
RateWindowSecs == 60

\* An entry of RATE_LIMITER; present = FALSE models a key not in the map.
NoEntry == [present |-> FALSE, count |-> 0, start |-> 0]
NoRequest == [pub |-> "", ctx |-> "", nonce |-> None, command |-> None]
NoLast == [n |-> 0, ip |-> None, req |-> NoRequest, status |-> 0,
           reason |-> None, result |-> None, lock |-> FALSE, ops |-> <<>>,
           qd |-> None, subject |-> None, signer |-> None]

\* The handler state at start-up under a configuration.
CertStart(variant, enabled, allowed, limit, budget) ==
    /\ cBudget = budget
    /\ cVariant = variant
    /\ cfgEnabled = enabled
    /\ cfgAllowed = allowed
    /\ cfgLimit = limit
    /\ cNow = 0
    /\ rateLimiter = [ip \in IPs |-> NoEntry]
    /\ cCalls = <<>>
    /\ cLoaded = 0
    /\ cLast = NoLast

\* ------------------------------------------------------------------------
\* Edge filter: operations
\* ------------------------------------------------------------------------
Modes == {"trust", "runtime", "strict"}

\* PluginConfig::default().sidecar_endpoint, and a deployment's own value.
DefaultEndpoint == "http://localhost:9050"
Endpoints == {DefaultEndpoint, "http://sidecar.example:9999"}

\* The deadline handed to dispatch_http_call, in seconds.
SidecarTimeoutSecs == 5

\* serde_json::to_string of an Option field marked
\* skip_serializing_if = "Option::is_none": None leaves the field out.
SerializeOption(opt) == IF opt = None THEN "absent" ELSE opt

\* private-cloud: the call on_http_request_headers hands to
\* dispatch_http_call for a mobile claim.
PcVerifyCall(mode, endpoint) ==
    LET skip_cache == mode = "strict" IN
    [upstream |-> "mobile_location_service", method |-> "POST",
     path |-> "/verify", authority |-> "localhost:9050",
     skip_cache |-> SerializeOption(IF skip_cache THEN "true" ELSE None),
     timeout |-> SidecarTimeoutSecs]

\* onprem: VerifyRequest has the one field sensor_id.
OpVerifyCall ==
    [upstream |-> "mobile_location_service", method |-> "POST",
     path |-> "/verify", authority |-> "localhost:5000",
     skip_cache |-> "absent", timeout |-> SidecarTimeoutSecs]

\* Variant: at the deadline the host delivers a verified response.
TimeoutResponse_Verified ==
    [status |-> 200, body |-> [kind |-> "json", vr |-> "true", err |-> FALSE]]

\* What the host delivers when the deadline passes: on_http_call_response
\* with no headers and no body.
TimeoutResponse ==
    [status |-> 0, body |-> [kind |-> "nobody", vr |-> "absent", err |-> FALSE]]

\* The filter before its first request, in a deployment (variant, mode).
\* ------------------------------------------------------------------------
\* TPM-using handlers: the agent after start-up
\* ------------------------------------------------------------------------
\* Two workers serve requests concurrently.
Procs == {"w1", "w2"}

NoTpmRequest ==
    [kind |-> None, nonce |-> None, mask |-> None, partial |-> None,
     nth |-> 0, claim |-> None, body |-> None]

\* A response under construction; status 0 = not answered yet.
NoTpmResponse ==
    [status |-> 0, reason |-> None, ops |-> <<>>,
     qnonce |-> None, qmask |-> {}, qextra |-> None, q15 |-> <<>>, q10 |-> 0,
     pubkey |-> FALSE, geo |-> None, mb |-> FALSE,
     slice |-> FALSE, sliceFrom |-> 0, sliceTo |-> 0,
     qd |-> None, subject |-> None, signer |-> None,
     okBefore |-> 0, lockedAt |-> 0]

\* QuoteData as main.rs builds it: the lock free, no request in progress.
TpmStart(variant, unified, imaFile, mbFile) ==
    /\ tVariant = variant
    /\ tUnified = unified
    /\ tImaFile = imaFile
    /\ tMbFile = mbFile
    /\ tpmLock = None
    /\ tPc = [p \in Procs |-> "idle"]
    /\ tReq = [p \in Procs |-> NoTpmRequest]
    /\ tResp = [p \in Procs |-> NoTpmResponse]
    /\ pcr15 = <<>>
    /\ imaLog = 0
    /\ geoOk = <<>>
    /\ tCount = 0

FilterStart(variant, mode, endpoint) ==
    /\ fVariant = variant
    /\ fMode = mode
    /\ fEndpoint = endpoint
    /\ fPhase = "idle"
    /\ fReq = [hdr |-> "absent", chain |-> <<>>]
    /\ fSensorType = None
    /\ fLocalStatus = 0
    /\ fDirect = FALSE
    /\ fResumed = FALSE
    /\ fCalls = <<>>
    /\ fWait = 0
    /\ fResp = NoResp
    /\ fCount = 1

\* ------------------------------------------------------------------------
\* Registrar client: values
\* ------------------------------------------------------------------------
UNKNOWN_API_VERSION == "unknown"

\* Version strings as they may appear in either list: plain, padded with
\* whitespace, and two spellings that differ in letter case only.
Versions == {"1.2", " 1.2 ", "3.4rc", "3.4RC"}

\* str::trim
Trim(v) == IF v = " 1.2 " THEN "1.2" ELSE v

\* Lists without repetition of at most n versions.
VersionLists(n) ==
    {l \in UNION {[1..k -> Versions] : k \in 1..n} :
        \A i, j \in 1..Len(l) : l[i] = l[j] => i = j}

\* Supported lists as the registrar sends them: one order per set.
Rank(v) == CASE v = "1.2" -> 1 [] v = " 1.2 " -> 2 [] v = "3.4rc" -> 3 [] OTHER -> 4

SupportedLists(n) ==
    {l \in VersionLists(n) : \A i \in 1..(Len(l) - 1) : Rank(l[i]) < Rank(l[i + 1])}

\* How the registrar answers GET /version, and how it answers a register or
\* activate request for a version it does not accept.
ProbeOutcomes == {"ok", "status", "transport", "decode", "unset"}
AttemptFailures == {"status", "transport"}

\* No client yet (build not called).
NoClient ==
    [built |-> None, err |-> None, api_version |-> None,
     has_supported |-> FALSE, supported_api_versions |-> <<>>]

\* No call made yet.  A call is remembered with the call before it: its
\* operation, whether it succeeded and the version of its last request.
NoCall ==
    [op |-> None, before |-> None, attempts |-> <<>>, ok |-> FALSE,
     err |-> None, agent_enabled |-> <<>>, registrar_supported |-> <<>>,
     prevOp |-> None, prevOk |-> FALSE, prevSent |-> None]

\* The registrar client before build, against a given registrar.
RegStart(reg, enabled) ==
    /\ registrar = reg
    /\ enabled_api_versions = enabled
    /\ client = NoClient
    /\ lastCall = NoCall

RegIdle ==
    RegStart([probe |-> "status", current_version |-> "1.2",
              supported_versions |-> <<"1.2">>, accepted |-> {"1.2"},
              fail |-> "status"], <<"1.2">>)

\* ------------------------------------------------------------------------
\* Agent startup: values
\* ------------------------------------------------------------------------
\* (ek_hash, hash_alg, sign_alg): one configuration and three that differ
\* from it in one component each.
Triples ==
    {<<"ekA", "sha256", "rsassa">>, <<"ekB", "sha256", "rsassa">>,
     <<"ekA", "sha384", "rsassa">>, <<"ekA", "sha256", "rsapss">>}

\* The step of a startup that fails, if any.
Faults ==
    {"none", "load_data", "load_ak", "createak", "evict", "save_ctx",
     "persist", "load_persistent", "store"}

NoAgentData ==
    [exists |-> FALSE, triple |-> <<>>, ak |-> 0, private |-> None, ph |-> FALSE]

NoRun ==
    [done |-> None, path |-> None, ak_handle |-> 0, ak |-> 0,
     persistent |-> FALSE, triple |-> <<>>, old |-> FALSE, stored |-> FALSE,
     prev |-> NoAgentData, hasPath |-> FALSE, fault |-> None]

\* A host on which the agent has never run.
AgentStart ==
    /\ tpmSlot = 0
    /\ agentData = NoAgentData
    /\ keysMade = 0
    /\ run = NoRun

\* ------------------------------------------------------------------------
\* Shutdown: values
\* ------------------------------------------------------------------------
\* Client connections, and the workers main spawns with a channel each.
Conns == {"c1", "c2", "c3"}
Workers == {"payload", "keys", "revocation"}

\* The agent serving requests: no signal yet, shutdown_task in its select!.
ShutdownStart ==
    /\ signalled = None
    /\ server = "running"
    /\ conns = [c \in Conns |-> "idle"]
    /\ chans = [w \in Workers |-> <<>>]
    /\ shutdownPc = "select"

\* ------------------------------------------------------------------------
\* Registrar client send path: values
\* ------------------------------------------------------------------------
\* Option<RetryConfig>: None, or initial_delay_ms, max_retries and an
\* optional max_delay_ms (delays in units of the smallest initial delay).
NoRetryConfig ==
    [set |-> FALSE, initial |-> 0, max_retries |-> 0, capped |-> FALSE, max |-> 0]
RetryConfigs ==
    {NoRetryConfig}
    \cup {[set |-> TRUE, initial |-> 1, max_retries |-> n, capped |-> TRUE, max |-> 3] :
              n \in {0, MaxRetries}}
    \cup {[set |-> TRUE, initial |-> 2, max_retries |-> MaxRetries,
           capped |-> FALSE, max |-> 0]}

\* What one send of a request ends with: status 200, another status, or a
\* transport failure; a script is the registrar's answer to each send.
SendOutcomes == {"200", "status", "transport"}
Scripts == [1..(MaxRetries + 1) -> SendOutcomes]

NoRq ==
    [pc |-> "idle", kind |-> None, caller |-> None, cfg |-> NoRetryConfig,
     script |-> [i \in 1..(MaxRetries + 1) |-> "200"], sends |-> 0,
     delays |-> <<>>, result |-> None]

RetryIdle == rq = NoRq

\* ------------------------------------------------------------------------
\* Sensor detection: values
\* ------------------------------------------------------------------------
\* What a detection returns; found = FALSE is None.
NoSensor ==
    [found |-> FALSE, type |-> None, sensor_id |-> None, imei |-> None,
     imsi |-> None]
NoHost == [lsusb |-> [ok |-> FALSE, lines |-> <<>>], node |-> FALSE, script |-> None,
           imeiLine |-> None, imsiLine |-> None]
NoDetection ==
    [host |-> NoHost, hostSet |-> FALSE,
     quote |-> NoSensor, quoteSet |-> FALSE,
     geo |-> NoSensor, geoSet |-> FALSE]

DetectIdle == det = NoDetection

\* ------------------------------------------------------------------------
\* IMA locks: values
\* ------------------------------------------------------------------------
ImaLocks == {"state", "file"}
NoUpdate == [by |-> None, locks |-> {}]

\* QuoteData as main.rs builds it: both mutexes free, MeasurementList::new().
ImaIdle ==
    /\ mLock = [l \in ImaLocks |-> None]
    /\ mPc = [p \in Procs |-> "idle"]
    /\ mHeld = [p \in Procs |-> <<>>]
    /\ mOffset = 0
    /\ mLen = 0
    /\ mUpdate = NoUpdate
    /\ mCount = 0

\* ------------------------------------------------------------------------
\* From the registration to the running server: values
\* ------------------------------------------------------------------------
\* What the rest of main reads from the configuration and the host:
\* revocation_cert set or "", enable_agent_mtls with an SSL context or
\* not, the ip option (an IPv4 address, an IPv6 address or a host name),
\* and whether ip:port can be bound.
BootConfigs ==
    [revocation_cert : {"", "RevocationCert.crt"}, mtls : BOOLEAN,
     ip : {"127.0.0.1", "::1", "localhost"}, bindable : BOOLEAN]

DefaultBootConfig ==
    [revocation_cert |-> "RevocationCert.crt", mtls |-> TRUE,
     ip |-> "127.0.0.1", bindable |-> TRUE]

\* No server bound yet.
NoServer == [scheme |-> None, ip |-> None, resources |-> {}]

\* The results of register_agent: Ok(()) or an error.
RegistrationResults == {"ok", "registrar_unreachable", "incompatible_api",
                        "activation_rejected"}

\* main has the AgentRegistration built and is about to register.
BootStart(cfg) ==
    /\ bootCfg = cfg
    /\ bootPc = "register"
    /\ bootReg = None
    /\ bootLog = <<>>
    /\ bootServed = NoServer

InitFilter ==
    /\ \E v \in {"private_cloud", "onprem"}, m \in Modes, e \in Endpoints :
          /\ (v = "onprem" => m = "runtime" /\ e = DefaultEndpoint)
          /\ FilterStart(v, m, e)
    /\ CertStart("main", TRUE, {}, 0, 0)
    /\ TpmStart("main", TRUE, TRUE, TRUE)
    /\ RegIdle
    /\ AgentStart
    /\ ShutdownStart
    /\ BootStart(DefaultBootConfig)
    /\ ImaIdle
    /\ DetectIdle
    /\ RetryIdle

\* Variant: every local answer is a 403.
SendLocal_Forbidden(status) ==
    /\ fLocalStatus' = 403
    /\ fPhase' = "responded"

\* send_http_response(status, ...): the request is answered locally.
SendLocal(status) ==
    /\ fLocalStatus' = status
    /\ fPhase' = "responded"

\* private-cloud on_http_request_headers, for request r; dispatchOk is the
\* result of dispatch_http_call.
PcOnHttpRequestHeaders(r, dispatchOk) ==
    /\ fVariant = "private_cloud"
    /\ fPhase = "idle"
    /\ fReq' = r
    /\ LET info == extract_sensor_info_from_cert(r.chain) IN
       IF r.hdr # "present"
       THEN /\ SendLocal(403)
            /\ UNCHANGED <<fSensorType, fDirect, fCalls>>
       ELSE IF info = "noclaim"
       THEN /\ SendLocal(403)
            /\ UNCHANGED <<fSensorType, fDirect, fCalls>>
       ELSE /\ fSensorType' = info
            /\ IF info = "mobile"
               THEN IF fMode = "trust"
                    THEN /\ fDirect' = TRUE
                         /\ fPhase' = "continued"
                         /\ UNCHANGED <<fLocalStatus, fCalls>>
                    ELSE IF dispatchOk
                    THEN /\ fCalls' = Append(fCalls, PcVerifyCall(fMode, fEndpoint))
                         /\ fPhase' = "paused"
                         /\ UNCHANGED <<fLocalStatus, fDirect>>
                    ELSE /\ SendLocal(503)
                         /\ UNCHANGED <<fDirect, fCalls>>
               ELSE /\ fDirect' = TRUE
                    /\ fPhase' = "continued"
                    /\ UNCHANGED <<fLocalStatus, fCalls>>
    /\ UNCHANGED <<fVariant, fMode, fEndpoint, fWait, fResumed, fResp, fCount>>
    /\ UNCHANGED notFilter

\* onprem on_http_request_headers.
OpOnHttpRequestHeaders(r, dispatchOk) ==
    /\ fVariant = "onprem"
    /\ fPhase = "idle"
    /\ fReq' = r
    /\ IF r.hdr # "present"
       THEN /\ SendLocal(403)
            /\ UNCHANGED fCalls
       ELSE IF extract_sensor_id_from_cert(r.chain) = "noclaim"
       THEN /\ SendLocal(403)
            /\ UNCHANGED fCalls
       ELSE IF dispatchOk
       THEN /\ fPhase' = "paused"
            /\ fCalls' = Append(fCalls, OpVerifyCall)
            /\ UNCHANGED fLocalStatus
       ELSE /\ SendLocal(500)
            /\ UNCHANGED fCalls
    /\ UNCHANGED <<fVariant, fMode, fEndpoint, fWait, fSensorType, fDirect, fResumed, fResp, fCount>>
    /\ UNCHANGED notFilter

\* resume_http_request()
Resume ==
    /\ fResumed' = TRUE
    /\ fPhase' = "continued"
    /\ UNCHANGED fLocalStatus

\* The host's timer of the pending call once the callback runs: a response
\* cancels it, a timeout leaves it expired.
TimerAfterCallback == IF fWait = SidecarTimeoutSecs THEN fWait ELSE 0

\* private-cloud on_http_call_response.
PcOnHttpCallResponse(resp) ==
    /\ fVariant = "private_cloud"
    /\ fPhase = "paused"
    /\ fResp' = resp
    /\ IF resp.body.kind = "nobody"
       THEN SendLocal(503) /\ UNCHANGED fResumed
       ELSE IF resp.status >= 400
       THEN SendLocal(503) /\ UNCHANGED fResumed
       ELSE IF resp.body.kind = "garbage" \/ resp.body.vr = "notbool"
       THEN SendLocal(503) /\ UNCHANGED fResumed
       ELSE IF resp.body.err
       THEN SendLocal(503) /\ UNCHANGED fResumed
       ELSE IF resp.body.vr = "true"
       THEN Resume
       ELSE SendLocal(403) /\ UNCHANGED fResumed
    /\ fWait' = TimerAfterCallback
    /\ UNCHANGED <<fVariant, fMode, fEndpoint, fReq, fSensorType, fDirect, fCalls, fCount>>
    /\ UNCHANGED notFilter

\* onprem on_http_call_response: the status is never read; VerifyResponse
\* has the one required field verification_result: bool.
OpOnHttpCallResponse(resp) ==
    /\ fVariant = "onprem"
    /\ fPhase = "paused"
    /\ fResp' = resp
    /\ IF resp.body.kind # "json" \/ resp.body.vr \notin {"true", "false"}
       THEN SendLocal(403) /\ UNCHANGED fResumed
       ELSE IF resp.body.vr = "false"
       THEN SendLocal(403) /\ UNCHANGED fResumed
       ELSE Resume
    /\ fWait' = TimerAfterCallback
    /\ UNCHANGED <<fVariant, fMode, fEndpoint, fReq, fSensorType, fDirect, fCalls, fCount>>
    /\ UNCHANGED notFilter

\* create_http_context: a fresh filter context for the next request.
CreateHttpContext ==
    /\ fPhase \in {"continued", "responded"}
    /\ fCount < MaxContexts
    /\ fCount' = fCount + 1
    /\ fPhase' = "idle"
    /\ fReq' = [hdr |-> "absent", chain |-> <<>>]
    /\ fSensorType' = None
    /\ fLocalStatus' = 0
    /\ fDirect' = FALSE
    /\ fResumed' = FALSE
    /\ fCalls' = <<>>
    /\ fWait' = 0
    /\ fResp' = NoResp
    /\ UNCHANGED <<fVariant, fMode, fEndpoint>>
    /\ UNCHANGED notFilter

\* A second passes while a dispatched call waits for its response.
FilterTick ==
    /\ fPhase = "paused"
    /\ fWait < SidecarTimeoutSecs
    /\ fWait' = fWait + 1
    /\ UNCHANGED <<fVariant, fMode, fEndpoint, fPhase, fReq, fSensorType,
                   fLocalStatus, fDirect, fResumed, fCalls, fResp, fCount>>
    /\ UNCHANGED notFilter

\* The request headers arrive once per HTTP context.
Arriving == IF fPhase = "idle" THEN FilterRequests ELSE {}

\* What the host can hand to on_http_call_response: the sidecar's response
\* before the deadline, the timeout at the deadline.
Answering ==
    IF fWait < SidecarTimeoutSecs THEN SidecarResponses ELSE {TimeoutResponse}

NextFilter ==
    \/ \E r \in Arriving, ok \in BOOLEAN : PcOnHttpRequestHeaders(r, ok)
    \/ \E r \in Arriving, ok \in BOOLEAN : OpOnHttpRequestHeaders(r, ok)
    \/ \E resp \in Answering : PcOnHttpCallResponse(resp)
    \/ \E resp \in Answering : OpOnHttpCallResponse(resp)
    \/ FilterTick
    \/ CreateHttpContext

SpecFilter == InitFilter /\ [][NextFilter]_vars

\* The host's timer: time passes, and a call that reached its deadline is
\* handed to the response callback.
HostTimeout ==
    /\ fWait = SidecarTimeoutSecs
    /\ \/ PcOnHttpCallResponse(TimeoutResponse)
       \/ OpOnHttpCallResponse(TimeoutResponse)

SpecFilterTimer ==
    InitFilter /\ [][NextFilter]_vars /\ WF_vars(FilterTick) /\ WF_vars(HostTimeout)

\* ------------------------------------------------------------------------
\* Edge filter: claims
\* ------------------------------------------------------------------------
\* The response is one the claim calls valid and verified: a parseable body
\* with verification_result true, no error field, and no 5xx status.
VerifiedTrue(resp) ==
    /\ resp.body.kind = "json"
    /\ resp.body.vr = "true"
    /\ ~resp.body.err
    /\ ~(resp.status >= 500)

\* C1: for every sidecar response to a paused request, a 5xx status or a
\* verification result other than true (false, absent, error field set,
\* unparseable body) denies the request and never resumes it; the request is
\* resumed only for a valid response carrying verification_result:true.
C1_FailClosed ==
    fResp # NoResp =>
        /\ (fResumed => VerifiedTrue(fResp))
        /\ (~VerifiedTrue(fResp) => fPhase = "responded" /\ fLocalStatus >= 400)

\* The private-cloud variant alone does fail closed.
C1_PrivateCloudFailsClosed ==
    fVariant = "private_cloud" => C1_FailClosed

\* The private-cloud filter has handled a sidecar response.
PcAnswered == fVariant = "private_cloud" /\ fResp # NoResp

\* The body is not one the filter can read as a VerifyResponse: none was
\* delivered (a failed call), it is not JSON, or verification_result is
\* not a boolean.
Unparseable(resp) == resp.body.kind # "json" \/ resp.body.vr = "notbool"

\* C30 (as stated): on a sidecar response, a status of 400 or above, a JSON
\* error field, or a verification_result other than true each produce a 403
\* to the client, while an unparseable body or a transport error produces
\* 503.
C30_ResponseMapping ==
    PcAnswered =>
        /\ Unparseable(fResp) /\ fResp.status < 400 => fLocalStatus = 503
        /\ ~Unparseable(fResp)
           /\ (fResp.status >= 400 \/ fResp.body.err \/ fResp.body.vr # "true") =>
               fLocalStatus = 403

\* C30 (amended): on a sidecar response, a verification_result other than
\* true (false or absent, in a body with no error field and a status below
\* 400) produces a 403 to the client, while a status of 400 or above, a JSON
\* error field, an unparseable body or a transport error produces 503; the
\* request is resumed in no other case than verification_result true.
C30_ResponseMappingPrivateCloud ==
    PcAnswered =>
        LET refused == fResp.status >= 400 \/ fResp.body.err \/ Unparseable(fResp)
        IN  /\ refused => fPhase = "responded" /\ fLocalStatus = 503
            /\ ~refused /\ fResp.body.vr # "true" =>
                   fPhase = "responded" /\ fLocalStatus = 403
            /\ fResumed <=> ~refused /\ fResp.body.vr = "true"

\* C30 witness: a sidecar response with status 500 and a readable body
\* saying verification_result true was answered 503.
C30_Witness ==
    /\ PcAnswered
    /\ fResp.status >= 400 /\ ~Unparseable(fResp) /\ ~fResp.body.err
    /\ fResp.body.vr = "true"
    /\ fLocalStatus = 503

\* The authority (host:port) an endpoint URL names.
Authority(endpoint) ==
    IF endpoint = DefaultEndpoint THEN "localhost:9050" ELSE "sidecar.example:9999"

\* The private-cloud filter took a mobile claim in runtime or strict mode
\* and its dispatch was accepted.
PcVerifying ==
    /\ fVariant = "private_cloud"
    /\ fSensorType = "mobile"
    /\ fMode \in {"runtime", "strict"}
    /\ fPhase = "paused" \/ fResp # NoResp

\* C31: for a mobile claim in runtime or strict mode the request dispatches
\* exactly one POST /verify to the configured sidecar_endpoint, with
\* skip_cache:false in the body in runtime mode and skip_cache:true in
\* strict mode, and the request stays paused (neither forwarded nor
\* answered) until the sidecar response callback has run.
C31_OneVerifyCallToConfiguredEndpoint ==
    PcVerifying =>
        /\ Len(fCalls) = 1
        /\ fCalls[1].method = "POST" /\ fCalls[1].path = "/verify"
        /\ fCalls[1].authority = Authority(fEndpoint)
        /\ fCalls[1].skip_cache = (IF fMode = "strict" THEN "true" ELSE "false")
        /\ ~fDirect
        /\ fResp = NoResp => fPhase = "paused" /\ ~fResumed /\ fLocalStatus = 0

\* C32: when the sidecar call of a paused request reaches its deadline of 5
\* seconds with no response, the step that follows answers the request with
\* 503 and does not resume it, and a request at its deadline does get that
\* answer: it is not left paused.
C32_DeadlineAnswers503 ==
    /\ [][fVariant = "private_cloud" /\ fPhase = "paused" /\ fWait = 5 =>
              fPhase' = "responded" /\ fLocalStatus' = 503 /\ ~fResumed']_vars
    /\ (fVariant = "private_cloud" /\ fPhase = "paused" /\ fWait = 5)
           ~> (fPhase = "responded" /\ fLocalStatus = 503 /\ ~fResumed)

\* C32 witness: a request whose call waited the full 5 seconds was answered
\* 503 by the callback that ran with no response.
C32_Witness ==
    /\ fVariant = "private_cloud"
    /\ fPhase = "responded" /\ fLocalStatus = 503 /\ ~fResumed
    /\ fWait = 5
    /\ fResp.status = 0 /\ fResp.body.kind = "nobody"
    /\ Len(fCalls) = 1 /\ fCalls[1].timeout = 5

\* C2: the filter admits a request directly (Action::Continue, no sidecar
\* call) only when the extracted claim has sensor type gnss, or has sensor
\* type mobile and verification_mode is trust.
C2_DirectAdmitOnlyGnssOrTrustedMobile ==
    fDirect =>
        \/ fSensorType = "gnss"
        \/ (fSensorType = "mobile" /\ fMode = "trust")

\* ------------------------------------------------------------------------
\* Delegated certification: hashing and key material (pure)
\* ------------------------------------------------------------------------
\* SHA-256 as an injective constructor; a ‖ b as the pair <<a, b>>.
SHA256(x) == <<"sha256", x>>
Concat(a, b) == <<a, b>>

\* app_key_public values of a request:
\*   ""            empty
\*   pemA          canonical PEM of key A ("-----BEGIN ...")
\*   pemA_alt      another PEM text of key A (starts with "-----BEGIN")
\*   b64_pemA      base64(pemA)
\*   b64_binary    valid base64 of bytes that are not UTF-8
\*   garbage       neither PEM nor base64
PubValues == {"", "pemA", "pemA_alt", "b64_pemA", "b64_binary", "garbage"}

\* Lines 190-211: the PEM text the handler goes on with ("invalid_utf8" for
\* the 400 branch).
NormalizePublic(pub) ==
    CASE pub \in {"pemA", "pemA_alt"} -> pub        \* strip_prefix("-----BEGIN")
      [] pub = "b64_pemA"              -> "pemA"     \* base64 decodes to UTF-8
      [] pub = "b64_binary"            -> "invalid_utf8"
      [] OTHER                         -> pub        \* not base64: taken as PEM

\* PKey::public_key_from_pem: the key, or "err".
ParsePem(pem) == IF pem \in {"pemA", "pemA_alt"} THEN "keyA" ELSE "err"
\* PKey::public_key_to_pem: the canonical PEM of a key.
KeyToPem(key) == IF key = "keyA" THEN "pemA" ELSE "err"

\* create_qualifying_data(pem, challenge_nonce): "err" when the PEM does not
\* parse, else SHA256( SHA256(public_key_to_pem) ‖ nonce bytes ).
create_qualifying_data(pem, nonce) ==
    IF ParsePem(pem) = "err" THEN "err"
    ELSE SHA256(Concat(SHA256(KeyToPem(ParsePem(pem))), nonce))

\* Phase 3 qualifying data: a fixed byte string.
Phase3QualifyingData == <<"bytes", "Unified-Identity-Phase3-Certification">>

\* app_key_context_path values and the file system behind them.
CtxValues == {"", "ctxA", "ctxB", "ctxMissing", "ctxBad"}
CtxExists(ctx) == ctx \in {"ctxA", "ctxB", "ctxBad"}
\* load_key_from_context_file: the key handle saved in the file, or "err".
LoadKeyFromContextFile(ctx) ==
    CASE ctx = "ctxA" -> "appKeyA"
      [] ctx = "ctxB" -> "appKeyB"
      [] OTHER        -> "err"
\* Phase 3 uses the key persisted at 0x8101000B.
PersistedAppKey == "appKeyAt8101000B"

NonceValues == {None, "", "n1"}

MainRequests ==
    {[pub |-> p, ctx |-> c, nonce |-> n, command |-> None] :
        p \in PubValues, c \in CtxValues, n \in NonceValues}
Phase3Requests ==
    {[pub |-> "pemA", ctx |-> c, nonce |-> None, command |-> k] :
        c \in {"ctxA", "ctxMissing"}, k \in {"certify_app_key", "other"}}

\* ------------------------------------------------------------------------
\* Delegated certification: check_rate_limit
\* ------------------------------------------------------------------------
\* limiter.entry(ip).or_insert((0, now))
EntryOrInsert(e, now) ==
    IF e.present THEN e ELSE [present |-> TRUE, count |-> 0, start |-> now]

\* Variant: the counter is reset but the window start is kept.
ResetIfExpired_KeepStart(e, now) ==
    IF now - e.start > RateWindowSecs THEN [e EXCEPT !.count = 0] ELSE e

\* "Reset counter if more than 1 minute has passed"
ResetIfExpired(e, now) ==
    IF now - e.start > RateWindowSecs
    THEN [e EXCEPT !.count = 0, !.start = now]
    ELSE e

\* entry.0 += 1 (a u32; MaxCalls keeps it far from wrapping)
Bump(e) == [e EXCEPT !.count = @ + 1]

\* Variant: the call that reaches the limit is refused.
WithinLimit_Strict(count, limit) == count < limit

\* entry.0 <= limit
WithinLimit(count, limit) == count <= limit

\* The entry of ip after one call with a non-zero limit.
RateEntry(limiter, ip, now) ==
    Bump(ResetIfExpired(EntryOrInsert(limiter[ip], now), now))

\* Variant: a limit of 0 is compared like any other.
check_rate_limit_NoZeroCase(limiter, ip, limit, now) ==
    WithinLimit(RateEntry(limiter, ip, now).count, limit)

\* check_rate_limit: its result, and the table it leaves.
check_rate_limit(limiter, ip, limit, now) ==
    IF limit = 0 THEN TRUE
    ELSE WithinLimit(RateEntry(limiter, ip, now).count, limit)

\* Variant: only a call within the limit is counted.
RateLimiterAfter_OnlyPassed(limiter, ip, limit, now) ==
    IF limit = 0 \/ ~WithinLimit(RateEntry(limiter, ip, now).count, limit)
    THEN limiter
    ELSE [limiter EXCEPT ![ip] = RateEntry(limiter, ip, now)]

RateLimiterAfter(limiter, ip, limit, now) ==
    IF limit = 0 THEN limiter
    ELSE [limiter EXCEPT ![ip] = RateEntry(limiter, ip, now)]

\* ------------------------------------------------------------------------
\* Delegated certification: certify_app_key
\* ------------------------------------------------------------------------
Response(status, reason) ==
    [status |-> status, reason |-> reason, result |-> "ERROR", lock |-> FALSE,
     ops |-> <<>>, qd |-> None, subject |-> None, signer |-> None]

\* Variant: the required fields are validated before the rate limit.
Admission_FieldsFirst(ip, req, pass) ==
    IF ~cfgEnabled THEN Response(403, "flag")
    ELSE IF cfgAllowed # {} /\ ip \notin cfgAllowed THEN Response(403, "ip")
    ELSE IF req.pub = "" THEN Response(400, "app_key_public")
    ELSE IF req.ctx = "" THEN Response(400, "app_key_context_path")
    ELSE IF req.nonce \in {None, ""} THEN Response(400, "challenge_nonce")
    ELSE IF ~pass THEN Response(429, "rate")
    ELSE IF ~CtxExists(req.ctx) THEN Response(400, "context_file")
    ELSE Response(0, "admitted")

\* Lines 89-172 of the main handler: the first admission check that fails,
\* or "admitted".  pass is the result of check_rate_limit, which is called
\* only when the flag and allowlist checks passed.
Admission(ip, req, pass) ==
    IF ~cfgEnabled THEN Response(403, "flag")
    ELSE IF cfgAllowed # {} /\ ip \notin cfgAllowed THEN Response(403, "ip")
    ELSE IF ~pass THEN Response(429, "rate")
    ELSE IF req.pub = "" THEN Response(400, "app_key_public")
    ELSE IF req.ctx = "" THEN Response(400, "app_key_context_path")
    ELSE IF req.nonce \in {None, ""} THEN Response(400, "challenge_nonce")
    ELSE IF ~CtxExists(req.ctx) THEN Response(400, "context_file")
    ELSE Response(0, "admitted")

\* The request reaches the rate-limit check (lines 89-120).
ReachesRateLimit(ip) ==
    cfgEnabled /\ (cfgAllowed = {} \/ ip \in cfgAllowed)

\* Lines 175-287 of the main handler: the TPM call chain under the lock.
\* certifyOk is the outcome of TPM2_Certify (and of the marshalling).
Certification(req, certifyOk) ==
    LET handle == LoadKeyFromContextFile(req.ctx)
        pem == NormalizePublic(req.pub)
        qd == create_qualifying_data(pem, req.nonce)
        locked == [Response(500, "load") EXCEPT !.lock = TRUE]
    IN  IF handle = "err" THEN locked
        ELSE IF pem = "invalid_utf8"
        THEN [locked EXCEPT !.status = 400, !.reason = "app_key_public_format",
                            !.ops = <<"load">>]
        ELSE IF qd = "err"
        THEN [locked EXCEPT !.reason = "qualifying_data", !.ops = <<"load">>]
        ELSE IF ~certifyOk
        THEN [locked EXCEPT !.reason = "certify", !.ops = <<"load", "certify">>,
                            !.qd = qd, !.subject = handle, !.signer = "AK"]
        ELSE [locked EXCEPT !.status = 200, !.reason = "ok", !.result = "SUCCESS",
                            !.ops = <<"load", "certify">>,
                            !.qd = qd, !.subject = handle, !.signer = "AK"]

\* Transient objects a request leaves loaded: load_key_from_context_file
\* loads one, and no path of the handler calls flush_context on it.
HandlesLeft(resp) ==
    IF Len(resp.ops) >= 1 /\ resp.ops[1] = "load" THEN 1 ELSE 0

\* The response record kept in cLast.
Answered(ip, req, resp) ==
    [n |-> cLast.n + 1, ip |-> ip, req |-> req, status |-> resp.status,
     reason |-> resp.reason, result |-> resp.result, lock |-> resp.lock,
     ops |-> resp.ops, qd |-> resp.qd, subject |-> resp.subject,
     signer |-> resp.signer]

\* certify_app_key of rust-keylime (the main handler), one request.
CertifyAppKey(ip, req, certifyOk) ==
    /\ cVariant = "main"
    /\ cLast.n < cBudget
    /\ LET reached == ReachesRateLimit(ip)
           pass == IF reached
                   THEN check_rate_limit(rateLimiter, ip, cfgLimit, cNow)
                   ELSE TRUE
           adm == Admission(ip, req, pass)
           resp == IF adm.reason = "admitted"
                   THEN Certification(req, certifyOk) ELSE adm
           after == RateLimiterAfter(rateLimiter, ip, cfgLimit, cNow)
       IN  /\ rateLimiter' = IF reached THEN after ELSE rateLimiter
           /\ cCalls' = IF reached
                        THEN Append(cCalls, [ip |-> ip, t |-> cNow, pass |-> pass,
                                             status |-> resp.status,
                                             wstart |-> after[ip].start])
                        ELSE cCalls
           /\ cLast' = Answered(ip, req, resp)
           /\ cLoaded' = cLoaded + HandlesLeft(resp)
    /\ UNCHANGED <<cVariant, cfgEnabled, cfgAllowed, cfgLimit, cNow, cBudget>>
    /\ UNCHANGED notCert

\* load_app_key_from_context of phase 3: the persisted handle when
\* tpm2_readpublic finds the key at 0x8101000B, else an error.
Phase3LoadAppKey(ctx, persisted) ==
    IF persisted THEN PersistedAppKey ELSE "err"

\* certify_app_key of code-rollout-phase-3, one request.
Phase3Response(req, persisted, certifyOk) ==
    LET handle == Phase3LoadAppKey(req.ctx, persisted)
        locked == [Response(400, "load") EXCEPT !.lock = TRUE,
                                                !.ops = <<"readpublic">>]
    IN  IF req.command # "certify_app_key" THEN Response(400, "command")
        ELSE IF ~cfgEnabled THEN Response(403, "flag")
        ELSE IF handle = "err" THEN locked
        ELSE IF ~certifyOk
        THEN [locked EXCEPT !.status = 500, !.reason = "certify",
                            !.ops = <<"readpublic", "certify">>,
                            !.qd = Phase3QualifyingData, !.subject = handle,
                            !.signer = "AK"]
        ELSE [locked EXCEPT !.status = 200, !.reason = "ok", !.result = "SUCCESS",
                            !.ops = <<"readpublic", "certify">>,
                            !.qd = Phase3QualifyingData, !.subject = handle,
                            !.signer = "AK"]

Phase3CertifyAppKey(ip, req, persisted, certifyOk) ==
    /\ cVariant = "phase3"
    /\ cLast.n < cBudget
    /\ cLast' = Answered(ip, req, Phase3Response(req, persisted, certifyOk))
    /\ UNCHANGED <<cVariant, cfgEnabled, cfgAllowed, cfgLimit, cNow,
                   rateLimiter, cCalls, cBudget, cLoaded>>
    /\ UNCHANGED notCert

\* Time passes.
TickSteps == {30, 31}
Tick(d) ==
    /\ cNow + d <= MaxTime
    /\ cNow' = cNow + d
    /\ UNCHANGED <<cVariant, cfgEnabled, cfgAllowed, cfgLimit, rateLimiter,
                   cCalls, cLast, cBudget, cLoaded>>
    /\ UNCHANGED notCert

\* A well-formed request, for the runs that exercise the rate limiter.
GoodRequest == [pub |-> "pemA", ctx |-> "ctxA", nonce |-> "n1", command |-> None]

\* SpecCert: every request shape, both handler variants, every configuration;
\* the clock stands still.
InitCert ==
    /\ \E v \in {"main", "phase3"}, en \in BOOLEAN,
          al \in {{}, {"ipA"}}, l \in Limits :
          /\ (v = "phase3" => al = {} /\ l = 0)
          /\ CertStart(v, en, al, l, MaxRequests)
    /\ FilterStart("private_cloud", "trust", DefaultEndpoint)
    /\ TpmStart("main", TRUE, TRUE, TRUE)
    /\ RegIdle
    /\ AgentStart
    /\ ShutdownStart
    /\ BootStart(DefaultBootConfig)
    /\ ImaIdle
    /\ DetectIdle
    /\ RetryIdle

NextCert ==
    \/ \E ip \in IPs, req \in MainRequests, ok \in BOOLEAN :
          CertifyAppKey(ip, req, ok)
    \/ \E ip \in IPs, req \in Phase3Requests, ps \in BOOLEAN, ok \in BOOLEAN :
          Phase3CertifyAppKey(ip, req, ps, ok)

SpecCert == InitCert /\ [][NextCert]_vars

\* SpecRate: well-formed requests of the main handler under a moving clock.
InitRate ==
    /\ \E l \in Limits : CertStart("main", TRUE, {}, l, MaxCalls)
    /\ FilterStart("private_cloud", "trust", DefaultEndpoint)
    /\ TpmStart("main", TRUE, TRUE, TRUE)
    /\ RegIdle
    /\ AgentStart
    /\ ShutdownStart
    /\ BootStart(DefaultBootConfig)
    /\ ImaIdle
    /\ DetectIdle
    /\ RetryIdle

NextRate ==
    \/ \E ip \in IPs : CertifyAppKey(ip, GoodRequest, TRUE)
    \/ \E d \in TickSteps : Tick(d)

SpecRate == InitRate /\ [][NextRate]_vars

\* ------------------------------------------------------------------------
\* Delegated certification: claims
\* ------------------------------------------------------------------------
\* The calls one peer IP made to check_rate_limit, oldest first.
CallsOf(ip) == SelectSeq(cCalls, LAMBDA c : c.ip = ip)

\* The 60-second window a call falls in, as the claim describes it: the
\* first call opens a window; a call more than 60 seconds after the opening
\* of the current window opens the next one.  idx counts the calls of the
\* window, this one included.
RECURSIVE ClaimedWindow(_, _)
ClaimedWindow(calls, i) ==
    IF i = 1 THEN [start |-> calls[1].t, idx |-> 1]
    ELSE LET prev == ClaimedWindow(calls, i - 1)
         IN  IF calls[i].t - prev.start > 60
             THEN [start |-> calls[i].t, idx |-> 1]
             ELSE [start |-> prev.start, idx |-> prev.idx + 1]

\* Exactly the first L calls of each window pass; the others get 429.
FirstLPass(L) ==
    \A ip \in IPs :
        LET calls == CallsOf(ip)
        IN  \A i \in 1..Len(calls) :
                LET w == ClaimedWindow(calls, i)
                IN  /\ calls[i].pass <=> w.idx <= L
                    /\ calls[i].status = 429 <=> w.idx > L

\* C3 (as claimed): for a limit L and any sequence of k > L calls from one
\* peer IP within 60 seconds, exactly the first L calls pass the rate-limit
\* check, the (L+1)th is answered 429, and after 60 seconds the window
\* resets so calls are admitted again.
C3_FirstLAdmitted == FirstLPass(cfgLimit)

\* C3 (amended): the same for every limit L >= 1; a limit of 0 switches the
\* rate limiter off and every call passes.
C3_FirstLAdmittedNonZeroLimit ==
    /\ cfgLimit >= 1 => FirstLPass(cfgLimit)
    /\ cfgLimit = 0 => \A i \in 1..Len(cCalls) : cCalls[i].pass

\* Limit 2: two calls pass, the third gets 429, and a call after the window
\* has expired passes again.
C3_Witness ==
    /\ cfgLimit = 2
    /\ \E ip \in IPs :
          LET calls == CallsOf(ip)
          IN  /\ Len(calls) = 4
              /\ calls[1].pass /\ calls[2].pass
              /\ calls[3].status = 429
              /\ calls[4].t - calls[1].t > 60
              /\ calls[4].pass

\* Calls of ip that passed at a time in lo..hi.
PassesIn(ip, lo, hi) ==
    Cardinality({i \in 1..Len(cCalls) :
                    /\ cCalls[i].ip = ip
                    /\ cCalls[i].pass
                    /\ lo <= cCalls[i].t
                    /\ cCalls[i].t <= hi})

\* C4 (as claimed): the rate limit is a sliding 60-second window per peer
\* IP: in every 60-second interval, wherever it starts, at most L requests
\* of one IP pass.  (Stated for L >= 1; intervals [t, t+60) starting at a
\* call suffice.)
C4_SlidingWindow ==
    cfgLimit >= 1 =>
        \A i \in 1..Len(cCalls) :
            PassesIn(cCalls[i].ip, cCalls[i].t, cCalls[i].t + 59) <= cfgLimit

\* C4 (amended): the rate limit is a fixed 60-second window per peer IP,
\* opened by a request and reopened by the first request more than 60
\* seconds later: at most L requests pass per window, hence at most 2L in
\* any 60-second interval.
C4_FixedWindow ==
    cfgLimit >= 1 =>
        \A i \in 1..Len(cCalls) :
            /\ Cardinality({j \in 1..Len(cCalls) :
                              /\ cCalls[j].ip = cCalls[i].ip
                              /\ cCalls[j].wstart = cCalls[i].wstart
                              /\ cCalls[j].pass}) <= cfgLimit
            /\ PassesIn(cCalls[i].ip, cCalls[i].t, cCalls[i].t + 59)
                   <= 2 * cfgLimit

\* More than L requests of one IP passed within 60 seconds, in two windows.
C4_Witness ==
    /\ cfgLimit = 2
    /\ \E i \in 1..Len(cCalls) :
          PassesIn(cCalls[i].ip, cCalls[i].t, cCalls[i].t + 59) = 3

\* The count of the window each call of an IP falls in decides its answer.
CountDecides(L) ==
    \A ip \in IPs :
        LET calls == CallsOf(ip)
        IN  \A i \in 1..Len(calls) :
                calls[i].status = 429 <=> ClaimedWindow(calls, i).idx > L

\* C37 (as stated): the rate-limit check answers 429 exactly when the peer
\* IP's count in the current window exceeds the configured limit, for every
\* limit including 0, where every request of every IP is answered 429.
C37_TooManyIffCountExceedsLimit == CountDecides(cfgLimit)

\* C37 (amended): the same for every limit of 1 or more, the count being the
\* one the limiter's table holds; with limit 0 the check is off: no request
\* is answered 429 and none is counted.
C37_TooManyIffCountExceedsNonZeroLimit ==
    /\ cfgLimit >= 1 =>
          /\ CountDecides(cfgLimit)
          /\ \A ip \in IPs :
                LET calls == CallsOf(ip)
                IN  Len(calls) > 0 =>
                       rateLimiter[ip].count = ClaimedWindow(calls, Len(calls)).idx
    /\ cfgLimit = 0 =>
          /\ \A i \in 1..Len(cCalls) : cCalls[i].status = 200
          /\ \A ip \in IPs : ~rateLimiter[ip].present

\* C37 witness: with limit 0 three requests of one IP were all answered 200
\* and the table is still empty.
C37_Witness ==
    /\ cfgLimit = 0
    /\ \E ip \in IPs :
          /\ Len(CallsOf(ip)) = 3
          /\ \A i \in 1..3 : CallsOf(ip)[i].status = 200
          /\ ~rateLimiter[ip].present

\* The last request reached the rate-limit check, and its result there.
LastReached == cfgEnabled /\ (cfgAllowed = {} \/ cLast.ip \in cfgAllowed)
LastPassed ==
    \/ cfgLimit = 0
    \/ Cardinality({i \in 1..Len(cCalls) : cCalls[i].ip = cLast.ip}) <= cfgLimit
FirstMissingField(req) ==
    IF req.pub = "" THEN "app_key_public"
    ELSE IF req.ctx = "" THEN "app_key_context_path"
    ELSE IF req.nonce \in {None, ""} THEN "challenge_nonce"
    ELSE None

C33_MalformedKeyIsBadRequest ==
    /\ cVariant = "main"
    /\ cLast.lock /\ Len(cLast.ops) >= 1
    /\ cLast.req.pub \notin {"pemA", "pemA_alt", "b64_pemA"}
    => cLast.status = 400

\* C38: every application-key handle certify_app_key loads from a context
\* file is flushed before the handler returns, on the success path and on
\* each error path after the load, so that any number of requests leaves no
\* additional transient object loaded in the TPM.
C38_LoadedHandleFlushed ==
    cVariant = "main" => cLoaded = 0

\* C39: a request rejected by the feature flag or by the allowlist leaves
\* the rate-limiter table unchanged; a request that reaches the rate-limit
\* check with a non-zero limit adds exactly one to its peer IP's count of
\* the current window (which restarts once 60 seconds have passed) and
\* changes no other IP's entry, whatever answer it then gets.
C39_RateAccounting ==
    [][cVariant = "main" /\ cLast'.n = cLast.n + 1 =>
          LET ip == cLast'.ip
              e == rateLimiter[ip]
              before == IF ~e.present \/ cNow - e.start > 60 THEN 0 ELSE e.count
              reached == cfgEnabled /\ (cfgAllowed = {} \/ ip \in cfgAllowed)
          IN  /\ ~reached => cLast'.status = 403 /\ rateLimiter' = rateLimiter
              /\ reached /\ cfgLimit # 0 =>
                    /\ cLast'.status \in {200, 400, 429, 500}
                    /\ rateLimiter'[ip].count = before + 1
                    /\ \A o \in IPs \ {ip} : rateLimiter'[o] = rateLimiter[o]
      ]_vars

\* C39 witness: two requests of one IP under limit 2, the second answered
\* 500 after admission, and the table counts both.
C39_Witness ==
    /\ cVariant = "main" /\ cfgLimit = 2
    /\ cLast.n = 2 /\ cLast.status = 500
    /\ rateLimiter[cLast.ip].count = 2

\* The PEM encoding of the public key a request carries, and the key its
\* context file holds.
PemOfRequestKey(pub) ==
    IF pub \in {"pemA", "pemA_alt", "b64_pemA"} THEN "pemA" ELSE None
KeyOfContextFile(ctx) ==
    CASE ctx = "ctxA" -> "appKeyA" [] ctx = "ctxB" -> "appKeyB" [] OTHER -> None

\* C6: for every delegated certificate returned with result SUCCESS, the
\* qualifying data handed to TPM Certify equals
\* SHA256( SHA256(app_key_public_PEM) ‖ challenge_nonce ) of the request's
\* own public key and nonce, the certified subject is the key loaded from
\* the request's context file, and the signing key is the agent's AK.
C6_QualifyingDataBinding ==
    cLast.result = "SUCCESS" =>
        /\ cLast.qd = <<"sha256", <<<<"sha256", PemOfRequestKey(cLast.req.pub)>>,
                                    cLast.req.nonce>>>>
        /\ cLast.subject = KeyOfContextFile(cLast.req.ctx)
        /\ cLast.signer = "AK"

\* The main handler alone does bind the certificate to the request.
C6_MainHandlerBinds == cVariant = "main" => C6_QualifyingDataBinding

\* ------------------------------------------------------------------------
\* TPM-using handlers: request values (pure)
\* ------------------------------------------------------------------------
\* nonce query values of the quote endpoints:
\*   "a1b2"     alphanumeric, hexadecimal, short
\*   "HIJ1"     alphanumeric, not hexadecimal, short
\*   "a-b"      not alphanumeric
\*   "hexmid"   hexadecimal, longer than MAX_NONCE_SIZE characters but at
\*              most 2 * MAX_NONCE_SIZE
\*   "hexlong"  hexadecimal, longer than 2 * MAX_NONCE_SIZE characters
QuoteNonces == {"a1b2", "HIJ1", "a-b", "hexmid", "hexlong"}

\* mask query values: "0x0" no PCR, "0x8400" PCR 10 and 15, "0x401" PCR 0
\* and 10, "zz" not hexadecimal, "0x-1" not alphanumeric.
MaskValues == {"0x0", "0x8400", "0x401", "zz", "0x-1"}

\* s.chars().all(char::is_alphanumeric)
IsAlphanumeric(s) == s \notin {"a-b", "0x-1"}

\* hex::decode(nonce) succeeds
IsHex(s) == s \in {"a1b2", "hexmid", "hexlong"}

\* nonce.len() against MAX_NONCE_SIZE and 2 * MAX_NONCE_SIZE
LenClass(s) ==
    CASE s = "hexmid" -> "mid" [] s = "hexlong" -> "long" [] OTHER -> "short"

\* Variant: the nonce is bound as the ASCII bytes of the query string.
HexDecode_AsBytes(s) == <<"bytes", s>>

\* hex::decode(nonce): the bytes the hexadecimal digits spell.
HexDecode(s) == <<"hex", s>>

\* nonce.as_bytes(): the ASCII bytes of the query string itself.
AsBytes(s) == <<"bytes", s>>

\* u32::from_str_radix(mask.trim_start_matches("0x"), 16), as PCR slots
ParseMask(m) ==
    CASE m = "0x0" -> [ok |-> TRUE, slots |-> {}]
      [] m = "0x8400" -> [ok |-> TRUE, slots |-> {10, 15}]
      [] m = "0x401" -> [ok |-> TRUE, slots |-> {0, 10}]
      [] OTHER -> [ok |-> FALSE, slots |-> {}]

\* Requests to the quote endpoints: one well-formed integrity request and
\* its variations.
IdentityRequests ==
    {[NoTpmRequest EXCEPT !.kind = "identity", !.nonce = n] : n \in QuoteNonces}
BaseIntegrity ==
    [NoTpmRequest EXCEPT !.kind = "integrity", !.nonce = "a1b2",
                         !.mask = "0x8400", !.partial = "0"]
IntegrityRequests ==
    {[BaseIntegrity EXCEPT !.nonce = n] : n \in QuoteNonces}
    \cup {[BaseIntegrity EXCEPT !.mask = m] : m \in MaskValues}
    \cup {[BaseIntegrity EXCEPT !.partial = x] : x \in {"1", "2"}}
    \cup {[BaseIntegrity EXCEPT !.nth = 1]}

\* What detect_geolocation_sensor can find.
Sensors == {None, "mobile", "gnss"}
GeoNonces == {"n1", "n2"}

\* build_nested_geolocation: the response without its nonce.
build_nested_geolocation(sensor) ==
    [sensor_type |-> sensor, tpm_attested |-> TRUE, tpm_pcr_index |-> 15]

\* serde_json::to_string(json!({...})) of the claim, the nonce left out.
GeoJson(claim) ==
    <<"json", claim.sensor_type, claim.tpm_attested, claim.tpm_pcr_index>>

\* Variant: the nonce is left out of the hashed data.
GeoDigest_NoNonce(claim, nonce) == SHA256(GeoJson(claim))

\* SHA-256 of format!("{}{}", geo_json, nonce)
GeoDigest(claim, nonce) == SHA256(Concat(GeoJson(claim), nonce))

\* ------------------------------------------------------------------------
\* TPM-using handlers: the TPM and the IMA log
\* ------------------------------------------------------------------------
\* Context::quote: the quote is signed by the key behind akHandle over the
\* nonce, the selected PCRs as they are now, and the hash of the PEM of
\* pubKey as extra data.
TpmQuote(resp, nonceBytes, slots, pubKey, akHandle) ==
    [resp EXCEPT !.ops = Append(@, "quote"),
                 !.qnonce = nonceBytes,
                 !.qmask = slots,
                 !.qextra = SHA256(<<"pem", pubKey>>),
                 !.q15 = IF 15 \in slots THEN pcr15 ELSE <<>>,
                 !.q10 = IF 10 \in slots THEN imaLog ELSE 0,
                 !.signer = akHandle,
                 !.okBefore = Len(geoOk)]

\* Context::extend_pcr(Pcr15, digest)
ExtendPcr15(digest) == pcr15' = Append(pcr15, digest)

\* MeasurementList::read(file, nth_entry): the entries after the first
\* nth_entry, up to the end of the log as it is now.
ImaRead(resp, nth) ==
    [resp EXCEPT !.slice = TRUE, !.sliceFrom = nth, !.sliceTo = imaLog]

\* The kernel measures a file: one more IMA entry, extended into PCR 10.
AppendIma ==
    /\ imaLog < MaxIma
    /\ tImaFile
    /\ imaLog' = imaLog + 1
    /\ UNCHANGED <<tVariant, tUnified, tImaFile, tMbFile, tpmLock, tPc, tReq,
                   tResp, pcr15, geoOk, tCount>>
    /\ UNCHANGED notTpm

\* Variant: the lock is taken without waiting for its holder.
Acquire_NoWait(p) == tpmLock' = p

\* data.tpmcontext.lock(): waits until the mutex is free.
Acquire(p) ==
    /\ tpmLock = None
    /\ tpmLock' = p

\* The guard is dropped when the handler returns.
Release(p) == tpmLock' = IF tpmLock = p THEN None ELSE tpmLock

\* The server hands a request to a free worker (workers are alike: w1 when
\* it is free, else w2).
Dispatched(p) ==
    /\ tPc[p] = "idle"
    /\ p = "w2" => tPc["w1"] # "idle"

\* A worker takes up a request / moves on / answers.
Begin(p, req, pc, resp) ==
    /\ Dispatched(p)
    /\ tCount < MaxTpmRequests
    /\ tCount' = tCount + 1
    /\ tReq' = [tReq EXCEPT ![p] = req]
    /\ tPc' = [tPc EXCEPT ![p] = pc]
    /\ tResp' = [tResp EXCEPT ![p] = resp]
Goto(p, pc, resp) ==
    /\ tPc' = [tPc EXCEPT ![p] = pc]
    /\ tResp' = [tResp EXCEPT ![p] = resp]
Answer(resp, status, reason) == [resp EXCEPT !.status = status, !.reason = reason]

\* The response is sent; the worker is free for the next request.
Reply(p) ==
    /\ tPc[p] = "done"
    /\ tPc' = [tPc EXCEPT ![p] = "idle"]
    /\ tReq' = [tReq EXCEPT ![p] = NoTpmRequest]
    /\ tResp' = [tResp EXCEPT ![p] = NoTpmResponse]
    /\ UNCHANGED <<tVariant, tUnified, tImaFile, tMbFile, tpmLock, pcr15,
                   imaLog, geoOk, tCount>>
    /\ UNCHANGED notTpm

tConfig == <<tVariant, tUnified, tImaFile, tMbFile>>

\* ------------------------------------------------------------------------
\* quotes_handler.rs: identity
\* ------------------------------------------------------------------------
\* Lines 190-256: the nonce checks, in order.
IdentityCheck(nonce) ==
    IF ~IsAlphanumeric(nonce) THEN "alphanumeric"
    ELSE IF LenClass(nonce) = "long" THEN "too_long"
    ELSE IF ~IsHex(nonce) THEN "hex"
    ELSE "ok"

\* The request arrives; a bad nonce is answered 400 before the lock.
Identity(p, req) ==
    /\ tVariant = "main"
    /\ LET check == IdentityCheck(req.nonce)
       IN  IF check = "ok"
           THEN Begin(p, req, "id_lock", NoTpmResponse)
           ELSE Begin(p, req, "done", Answer(NoTpmResponse, 400, check))
    /\ UNCHANGED <<tConfig, tpmLock, pcr15, imaLog, geoOk>>
    /\ UNCHANGED notTpm

\* Line 260: data.tpmcontext.lock()
IdentityLock(p) ==
    /\ tPc[p] = "id_lock"
    /\ Acquire(p)
    /\ Goto(p, "id_quote", [tResp[p] EXCEPT !.lockedAt = Len(pcr15)])
    /\ UNCHANGED <<tConfig, tReq, pcr15, imaLog, geoOk, tCount>>
    /\ UNCHANGED notTpm

\* Lines 296-309: the payload public key as PEM, then the response.
IdentityFinish(p, resp, pemOk) ==
    /\ Goto(p, "done", IF pemOk
                       THEN Answer([resp EXCEPT !.pubkey = TRUE], 200, "ok")
                       ELSE Answer(resp, 500, "pubkey"))
    /\ Release(p)

\* Variant: the sensor is looked for whatever the feature flag says.
DetectsSensor_Always == TRUE

\* Lines 281-285: detect_geolocation_sensor() runs only with the feature on;
\* otherwise the geolocation is None.
DetectsSensor == tUnified

\* Lines 262-285: context.quote with the decoded nonce and mask 0.  With the
\* feature on the handler goes on to detect the sensor, the guard alive.
IdentityQuote(p, ok, pemOk) ==
    /\ tPc[p] = "id_quote"
    /\ IF ~ok
       THEN Goto(p, "done", Answer(tResp[p], 500, "quote")) /\ Release(p)
       ELSE LET quoted == TpmQuote(tResp[p], HexDecode(tReq[p].nonce), {},
                                   "payload_pub_key", "AK")
            IN  IF DetectsSensor
                THEN Goto(p, "id_detect", quoted) /\ UNCHANGED tpmLock
                ELSE IdentityFinish(p, quoted, pemOk)
    /\ UNCHANGED <<tConfig, tReq, pcr15, imaLog, geoOk, tCount>>
    /\ UNCHANGED notTpm

\* Lines 281-309: detect_geolocation_sensor() returns (lsusb and the
\* information script have exited), then the response.
IdentityDetect(p, sensor, pemOk) ==
    /\ tPc[p] = "id_detect"
    /\ IdentityFinish(p, [tResp[p] EXCEPT !.geo = sensor], pemOk)
    /\ UNCHANGED <<tConfig, tReq, pcr15, imaLog, geoOk, tCount>>
    /\ UNCHANGED notTpm

\* ------------------------------------------------------------------------
\* quotes_handler.rs: integrity
\* ------------------------------------------------------------------------
\* Variant: every partial other than "0" is taken as "1".
IntegrityCheck_AnyPartial(req, pemOk) ==
    IF ~IsAlphanumeric(req.nonce) THEN [status |-> 400, reason |-> "nonce_alphanumeric"]
    ELSE IF ~IsAlphanumeric(req.mask) THEN [status |-> 400, reason |-> "mask_alphanumeric"]
    ELSE IF ~ParseMask(req.mask).ok THEN [status |-> 400, reason |-> "mask_hex"]
    ELSE IF LenClass(req.nonce) # "short" THEN [status |-> 400, reason |-> "nonce_too_long"]
    ELSE IF req.partial = "0" /\ ~pemOk THEN [status |-> 500, reason |-> "pubkey"]
    ELSE [status |-> 0, reason |-> "ok"]

\* Lines 323-397: the parameter checks, in order.
IntegrityCheck(req, pemOk) ==
    IF ~IsAlphanumeric(req.nonce) THEN [status |-> 400, reason |-> "nonce_alphanumeric"]
    ELSE IF ~IsAlphanumeric(req.mask) THEN [status |-> 400, reason |-> "mask_alphanumeric"]
    ELSE IF ~ParseMask(req.mask).ok THEN [status |-> 400, reason |-> "mask_hex"]
    ELSE IF LenClass(req.nonce) # "short" THEN [status |-> 400, reason |-> "nonce_too_long"]
    ELSE IF req.partial = "0"
    THEN IF pemOk THEN [status |-> 0, reason |-> "ok"]
         ELSE [status |-> 500, reason |-> "pubkey"]
    ELSE IF req.partial = "1" THEN [status |-> 0, reason |-> "ok"]
    ELSE [status |-> 400, reason |-> "partial"]

Integrity(p, req, pemOk) ==
    /\ tVariant = "main"
    /\ LET check == IntegrityCheck(req, pemOk)
       IN  IF check.status = 0
           THEN Begin(p, req, "in_lock",
                      [NoTpmResponse EXCEPT !.pubkey = (req.partial = "0")])
           ELSE Begin(p, req, "done",
                      Answer(NoTpmResponse, check.status, check.reason))
    /\ UNCHANGED <<tConfig, tpmLock, pcr15, imaLog, geoOk>>
    /\ UNCHANGED notTpm

\* Variant: the logs are read first and the quote is taken last.
IntegrityOrder_QuoteLast == <<"in_mb", "in_ima", "in_quote">>

\* Lines 416-494: what the handler does under the lock, in statement order:
\* the quote, the measured-boot log, the IMA slice.
IntegrityOrder == <<"in_quote", "in_mb", "in_ima">>

\* Variant: the IMA log is read whether or not a log file is configured.
Applicable_AlwaysIma(step, req) ==
    CASE step = "in_quote" -> TRUE
      [] step = "in_mb" -> 0 \in ParseMask(req.mask).slots /\ tMbFile
      [] step = "in_ima" -> TRUE

\* A step is skipped when its file is not configured (or PCR 0 not selected).
Applicable(step, req) ==
    CASE step = "in_quote" -> TRUE
      [] step = "in_mb" -> 0 \in ParseMask(req.mask).slots /\ tMbFile
      [] step = "in_ima" -> tImaFile

\* The first applicable step after position i, or "return".
NextStep(i, req) ==
    LET later == {j \in (i + 1)..Len(IntegrityOrder) :
                     Applicable(IntegrityOrder[j], req)}
    IN  IF later = {} THEN "return"
        ELSE IntegrityOrder[CHOOSE j \in later : \A k \in later : j <= k]

\* Go on to the next step, or build the final quote and return (lines
\* 497-507), which drops the guard.
IntegrityAdvance(p, step, resp) ==
    LET i == CHOOSE j \in 1..Len(IntegrityOrder) : IntegrityOrder[j] = step
        next == NextStep(i, tReq[p])
    IN  IF next = "return"
        THEN Goto(p, "done", Answer(resp, 200, "ok")) /\ Release(p)
        ELSE Goto(p, next, resp) /\ UNCHANGED tpmLock

\* Line 413: data.tpmcontext.lock()
IntegrityLock(p) ==
    /\ tPc[p] = "in_lock"
    /\ Acquire(p)
    /\ Goto(p, NextStep(0, tReq[p]), [tResp[p] EXCEPT !.lockedAt = Len(pcr15)])
    /\ UNCHANGED <<tConfig, tReq, pcr15, imaLog, geoOk, tCount>>
    /\ UNCHANGED notTpm

\* Lines 416-432: context.quote with the nonce's bytes and the mask.
IntegrityQuote(p, ok) ==
    /\ tPc[p] = "in_quote"
    /\ IF ~ok
       THEN Goto(p, "done", Answer(tResp[p], 500, "quote")) /\ Release(p)
       ELSE IntegrityAdvance(p, "in_quote",
                TpmQuote(tResp[p], AsBytes(tReq[p].nonce),
                         ParseMask(tReq[p].mask).slots, "payload_pub_key", "AK"))
    /\ UNCHANGED <<tConfig, tReq, pcr15, imaLog, geoOk, tCount>>
    /\ UNCHANGED notTpm

\* Lines 443-473: rewind and read the measured-boot log.
IntegrityReadMb(p, outcome) ==
    /\ tPc[p] = "in_mb"
    /\ IF outcome = "rewind_err"
       THEN Goto(p, "done", Answer(tResp[p], 500, "rewind")) /\ Release(p)
       ELSE IntegrityAdvance(p, "in_mb",
                [tResp[p] EXCEPT !.mb = (outcome = "ok")])
    /\ UNCHANGED <<tConfig, tReq, pcr15, imaLog, geoOk, tCount>>
    /\ UNCHANGED notTpm

\* Lines 476-494: read the IMA slice from nth_entry.
IntegrityReadIma(p, ok) ==
    /\ tPc[p] = "in_ima"
    /\ IF ~ok
       THEN Goto(p, "done", Answer(tResp[p], 500, "ima")) /\ Release(p)
       ELSE IntegrityAdvance(p, "in_ima", ImaRead(tResp[p], tReq[p].nth))
    /\ UNCHANGED <<tConfig, tReq, pcr15, imaLog, geoOk, tCount>>
    /\ UNCHANGED notTpm

\* ------------------------------------------------------------------------
\* geolocation_handler.rs: attested_geolocation
\* ------------------------------------------------------------------------
\* The same two checks with the sensor looked for before the flag.
GeolocationGate_SensorFirst(unified, sensor) ==
    IF sensor = None THEN [status |-> 404, reason |-> "no_sensor"]
    ELSE IF ~unified THEN [status |-> 403, reason |-> "flag"]
    ELSE [status |-> 0, reason |-> None]

\* Lines 82-104: the feature flag (403), then detect_geolocation_sensor()
\* (404 when it returns None).
GeolocationGate(unified, sensor) ==
    IF ~unified THEN [status |-> 403, reason |-> "flag"]
    ELSE IF sensor = None THEN [status |-> 404, reason |-> "no_sensor"]
    ELSE [status |-> 0, reason |-> None]

\* Lines 82-112: the flag, the sensor detection (before the lock), the claim.
\* The response remembers what the detection returned, when it ran.
AttestedGeolocation(p, nonce, sensor) ==
    /\ tVariant = "main"
    /\ LET req == [NoTpmRequest EXCEPT !.kind = "geolocation", !.nonce = nonce]
           found == [req EXCEPT !.claim = build_nested_geolocation(sensor)]
           gate == GeolocationGate(tUnified, sensor)
           seen == [NoTpmResponse EXCEPT !.geo = IF tUnified THEN sensor ELSE None]
       IN  IF gate.status # 0
           THEN Begin(p, req, "done", Answer(seen, gate.status, gate.reason))
           ELSE Begin(p, found, "geo_lock", seen)
    /\ UNCHANGED <<tConfig, tpmLock, pcr15, imaLog, geoOk>>
    /\ UNCHANGED notTpm

\* Lines 417-418 of extend_pcr_15_with_geolocation_and_nonce
GeolocationLock(p) ==
    /\ tPc[p] = "geo_lock"
    /\ Acquire(p)
    /\ Goto(p, "geo_extend", [tResp[p] EXCEPT !.lockedAt = Len(pcr15)])
    /\ UNCHANGED <<tConfig, tReq, pcr15, imaLog, geoOk, tCount>>
    /\ UNCHANGED notTpm

\* Lines 420-428 and 115-127: extend PCR 15, drop the guard, answer.
GeolocationExtend(p, ok) ==
    /\ tPc[p] = "geo_extend"
    /\ IF ok
       THEN /\ ExtendPcr15(GeoDigest(tReq[p].claim, tReq[p].nonce))
            /\ geoOk' = Append(geoOk, [sensor |-> tReq[p].claim.sensor_type,
                                       nonce |-> tReq[p].nonce])
            /\ Goto(p, "done",
                    Answer([tResp[p] EXCEPT !.ops = Append(@, "extend")], 200, "ok"))
       ELSE /\ UNCHANGED <<pcr15, geoOk>>
            /\ Goto(p, "done", Answer(tResp[p], 500, "extend"))
    /\ Release(p)
    /\ UNCHANGED <<tConfig, tReq, imaLog, tCount>>
    /\ UNCHANGED notTpm

\* ------------------------------------------------------------------------
\* delegated_certification_handler.rs: the TPM call chain, step by step
\* ------------------------------------------------------------------------
TpmCertifyBodies ==
    {GoodRequest, [GoodRequest EXCEPT !.ctx = "ctxBad"],
     [GoodRequest EXCEPT !.ctx = "ctxMissing"]}

\* The certification fields of a handler response, copied into tResp.
WithCertification(resp, c) ==
    [resp EXCEPT !.status = c.status, !.reason = c.reason, !.ops = c.ops,
                 !.qd = c.qd, !.subject = c.subject, !.signer = c.signer]

\* Lines 89-172 of the main handler: admission, before the lock.
CertifyStart(p, body) ==
    /\ tVariant = "main"
    /\ LET req == [NoTpmRequest EXCEPT !.kind = "certify", !.body = body]
           adm == Admission("ipA", body,
                            check_rate_limit(rateLimiter, "ipA", cfgLimit, cNow))
       IN  IF adm.reason = "admitted"
           THEN Begin(p, req, "ce_lock", NoTpmResponse)
           ELSE Begin(p, req, "done", WithCertification(NoTpmResponse, adm))
    /\ UNCHANGED <<tConfig, tpmLock, pcr15, imaLog, geoOk>>
    /\ UNCHANGED notTpm

\* Line 175: data.tpmcontext.lock()
CertifyLock(p) ==
    /\ tPc[p] = "ce_lock"
    /\ Acquire(p)
    /\ Goto(p, "ce_load", [tResp[p] EXCEPT !.lockedAt = Len(pcr15)])
    /\ UNCHANGED <<tConfig, tReq, pcr15, imaLog, geoOk, tCount>>
    /\ UNCHANGED notTpm

\* Lines 178-227: load_key_from_context_file, then the qualifying data; an
\* error returns, which drops the guard.
CertifyLoad(p) ==
    /\ tPc[p] = "ce_load"
    /\ LET c == Certification(tReq[p].body, TRUE)
       IN  IF c.status = 200
           THEN /\ Goto(p, "ce_certify", [tResp[p] EXCEPT !.ops = <<"load">>])
                /\ UNCHANGED tpmLock
           ELSE /\ Goto(p, "done", WithCertification(tResp[p], c))
                /\ Release(p)
    /\ UNCHANGED <<tConfig, tReq, pcr15, imaLog, geoOk, tCount>>
    /\ UNCHANGED notTpm

\* Lines 230-286: certify_credential, marshalling, the response.
CertifyCertify(p, certifyOk) ==
    /\ tPc[p] = "ce_certify"
    /\ Goto(p, "done",
            WithCertification(tResp[p], Certification(tReq[p].body, certifyOk)))
    /\ Release(p)
    /\ UNCHANGED <<tConfig, tReq, pcr15, imaLog, geoOk, tCount>>
    /\ UNCHANGED notTpm

\* Phase 3, lines 60-89: the command and flag checks, before the lock.
Phase3Start(p, body) ==
    /\ tVariant = "phase3"
    /\ LET req == [NoTpmRequest EXCEPT !.kind = "certify_p3", !.body = body]
           early == Phase3Response(body, TRUE, TRUE)
       IN  IF early.reason \in {"command", "flag"}
           THEN Begin(p, req, "done", WithCertification(NoTpmResponse, early))
           ELSE Begin(p, req, "p3_lock", NoTpmResponse)
    /\ UNCHANGED <<tConfig, tpmLock, pcr15, imaLog, geoOk>>
    /\ UNCHANGED notTpm

\* Phase 3, line 89: data.tpmcontext.lock()
Phase3Lock(p) ==
    /\ tPc[p] = "p3_lock"
    /\ Acquire(p)
    /\ Goto(p, "p3_readpublic", [tResp[p] EXCEPT !.lockedAt = Len(pcr15)])
    /\ UNCHANGED <<tConfig, tReq, pcr15, imaLog, geoOk, tCount>>
    /\ UNCHANGED notTpm

\* Phase 3, lines 101-119 and 240-312: tpm2_readpublic has exited.
Phase3ReadPublic(p, persisted) ==
    /\ tPc[p] = "p3_readpublic"
    /\ IF persisted
       THEN /\ Goto(p, "p3_certify", [tResp[p] EXCEPT !.ops = <<"readpublic">>])
            /\ UNCHANGED tpmLock
       ELSE /\ Goto(p, "done",
                    WithCertification(tResp[p],
                                      Phase3Response(tReq[p].body, FALSE, TRUE)))
            /\ Release(p)
    /\ UNCHANGED <<tConfig, tReq, pcr15, imaLog, geoOk, tCount>>
    /\ UNCHANGED notTpm

\* Phase 3, lines 141-233: certify_credential, the response.
Phase3Certify(p, certifyOk) ==
    /\ tPc[p] = "p3_certify"
    /\ Goto(p, "done",
            WithCertification(tResp[p],
                              Phase3Response(tReq[p].body, TRUE, certifyOk)))
    /\ Release(p)
    /\ UNCHANGED <<tConfig, tReq, pcr15, imaLog, geoOk, tCount>>
    /\ UNCHANGED notTpm

\* ------------------------------------------------------------------------
\* SpecTpm: two workers serving requests on one agent
\* ------------------------------------------------------------------------
InitTpm ==
    /\ \E v \in {"main", "phase3"}, u \in BOOLEAN, ima \in BOOLEAN, mb \in BOOLEAN :
          /\ v = "phase3" => ima /\ mb
          /\ ~ima => mb
          /\ TpmStart(v, u, ima, mb)
          /\ CertStart(v, u, {}, 0, 0)
    /\ FilterStart("private_cloud", "trust", DefaultEndpoint)
    /\ RegIdle
    /\ AgentStart
    /\ ShutdownStart
    /\ BootStart(DefaultBootConfig)
    /\ ImaIdle
    /\ DetectIdle
    /\ RetryIdle

NextTpm ==
    \/ \E p \in Procs, r \in IdentityRequests : Identity(p, r)
    \/ \E p \in Procs : IdentityLock(p)
    \/ \E p \in Procs, ok \in BOOLEAN, pemOk \in BOOLEAN : IdentityQuote(p, ok, pemOk)
    \/ \E p \in Procs, sn \in Sensors, pemOk \in BOOLEAN : IdentityDetect(p, sn, pemOk)
    \/ \E p \in Procs, r \in IntegrityRequests, pemOk \in BOOLEAN : Integrity(p, r, pemOk)
    \/ \E p \in Procs : IntegrityLock(p)
    \/ \E p \in Procs, ok \in BOOLEAN : IntegrityQuote(p, ok)
    \/ \E p \in Procs, o \in {"ok", "rewind_err", "read_err"} : IntegrityReadMb(p, o)
    \/ \E p \in Procs, ok \in BOOLEAN : IntegrityReadIma(p, ok)
    \/ \E p \in Procs, n \in GeoNonces, sn \in Sensors : AttestedGeolocation(p, n, sn)
    \/ \E p \in Procs : GeolocationLock(p)
    \/ \E p \in Procs, ok \in BOOLEAN : GeolocationExtend(p, ok)
    \/ \E p \in Procs, b \in TpmCertifyBodies : CertifyStart(p, b)
    \/ \E p \in Procs : CertifyLock(p)
    \/ \E p \in Procs : CertifyLoad(p)
    \/ \E p \in Procs, ok \in BOOLEAN : CertifyCertify(p, ok)
    \/ \E p \in Procs, b \in Phase3Requests : Phase3Start(p, b)
    \/ \E p \in Procs : Phase3Lock(p)
    \/ \E p \in Procs, ps \in BOOLEAN : Phase3ReadPublic(p, ps)
    \/ \E p \in Procs, ok \in BOOLEAN : Phase3Certify(p, ok)
    \/ \E p \in Procs : Reply(p)
    \/ AppendIma

SpecTpm == InitTpm /\ [][NextTpm]_vars

\* ------------------------------------------------------------------------
\* TPM-using handlers: claims
\* ------------------------------------------------------------------------
\* Worker p has answered an integrity request with a quote.
IntegrityAnswered(p) ==
    /\ tPc[p] = "done"
    /\ tReq[p].kind = "integrity"
    /\ tResp[p].status = 200

\* The digest the claim prescribes for a geolocation request answered 200:
\* SHA256( JSON(claim without nonce) ‖ N ).
ClaimedDigest(g) == <<"sha256", <<<<"json", g.sensor, TRUE, 15>>, g.nonce>>>>

InChain(p) ==
    tPc[p] \in {"id_quote", "id_detect", "in_quote", "in_mb", "in_ima",
                "geo_extend", "ce_load", "ce_certify",
                "p3_readpublic", "p3_certify"}
AtLock(p) == tPc[p] \in {"id_lock", "in_lock", "geo_lock", "ce_lock", "p3_lock"}

\* C8: all TPM call chains (identity quote, integrity quote,
\* load-and-certify, PCR 15 extension) are serialised by the one TPM context
\* lock: no two workers are inside a chain at once, a worker inside a chain
\* holds the lock, and a quote that took the lock after an extension
\* completed reports PCR 15 with exactly the extensions made before the lock
\* was taken.
C8_ChainsSerialised ==
    /\ \A p \in Procs : InChain(p) => tpmLock = p
    /\ \A p, q \in Procs : InChain(p) /\ InChain(q) => p = q
    /\ \A p \in Procs :
          IntegrityAnswered(p) /\ 15 \in tResp[p].qmask =>
              tResp[p].q15 = SubSeq(pcr15, 1, tResp[p].lockedAt)

\* One worker is in the middle of load-and-certify while the other waits
\* for the lock.
C8_Witness ==
    \E p, q \in Procs :
        /\ tPc[p] = "ce_certify"
        /\ tResp[p].ops = <<"load">>
        /\ AtLock(q)
        /\ tpmLock = p

\* Worker p waits for a subprocess to exit or reads a log file.
Waiting(p) == tPc[p] \in {"id_detect", "in_mb", "in_ima", "p3_readpublic"}

\* C9: no handler holds the TPM lock across a suspension point: the guard
\* is released before any wait on subprocess exit, log-file read or network
\* I/O.
C9_NoLockAcrossWait == \A p \in Procs : Waiting(p) => tpmLock # p

\* C10 (as claimed): in every integrity request the TPM quote is computed
\* after the IMA slice is captured, so every entry of the slice is reflected
\* in the quoted PCR 10.
C10_QuoteAfterSlice ==
    \A p \in Procs :
        IntegrityAnswered(p) /\ tResp[p].slice /\ 10 \in tResp[p].qmask =>
            tResp[p].sliceTo <= tResp[p].q10

\* C10 (amended): the TPM quote is computed before the IMA slice is
\* captured, so every entry reflected in the quoted PCR 10 from nth_entry
\* on is in the slice; the slice may hold entries measured after the quote.
C10_SliceAfterQuote ==
    \A p \in Procs :
        IntegrityAnswered(p) /\ tResp[p].slice /\ 10 \in tResp[p].qmask =>
            /\ tResp[p].sliceFrom = tReq[p].nth
            /\ tResp[p].q10 <= tResp[p].sliceTo

\* A file was measured between the quote and the read of the slice.
C10_Witness ==
    \E p \in Procs :
        /\ IntegrityAnswered(p)
        /\ tResp[p].slice
        /\ 10 \in tResp[p].qmask
        /\ tResp[p].q10 < tResp[p].sliceTo

\* ------------------------------------------------------------------------
\* Registrar client: build, register_agent, activate_agent
\* ------------------------------------------------------------------------
\* get_registrar_api_version: the result of GET /version.
get_registrar_api_version ==
    CASE registrar.probe = "unset" -> [ok |-> FALSE, err |-> "RegistrarIPNotSet"]
      [] registrar.probe = "transport" -> [ok |-> FALSE, err |-> "Reqwest"]
      [] registrar.probe = "status" -> [ok |-> FALSE, err |-> "RegistrarNoVersion"]
      [] registrar.probe = "decode" -> [ok |-> FALSE, err |-> "Reqwest"]
      [] OTHER -> [ok |-> TRUE, err |-> None]

\* Variant: every failed probe yields a client with an unknown version.
BuildVersion_AlwaysClient(r) ==
    IF r.ok THEN [client |-> TRUE, version |-> registrar.current_version]
    ELSE [client |-> TRUE, version |-> UNKNOWN_API_VERSION]

\* build: the version the client starts with, or no client at all.
BuildVersion(r) ==
    IF r.ok THEN [client |-> TRUE, version |-> registrar.current_version]
    ELSE IF r.err = "RegistrarNoVersion"
    THEN [client |-> TRUE, version |-> UNKNOWN_API_VERSION]
    ELSE [client |-> FALSE, version |-> None]

\* RegistrarClientBuilder::build
Build ==
    /\ client.built = None
    /\ LET r == get_registrar_api_version
           b == BuildVersion(r)
       IN  client' =
             IF b.client
             THEN [built |-> "client", err |-> None, api_version |-> b.version,
                   has_supported |-> r.ok,
                   supported_api_versions |->
                       IF r.ok THEN registrar.supported_versions ELSE <<>>]
             ELSE [NoClient EXCEPT !.built = "error", !.err = r.err]
    /\ UNCHANGED <<registrar, enabled_api_versions, lastCall>>
    /\ UNCHANGED notReg

\* Vec::contains: equality of the strings as they are.
Contains(l, v) == \E i \in 1..Len(l) : l[i] = v

\* try_register_agent / try_activate_agent with api_version in the URL as
\* it was handed over: "ok", or the error the attempt ends with.
TryAgent(op, api_version) ==
    IF api_version \in registrar.accepted THEN "ok"
    ELSE IF registrar.fail = "transport" THEN "Reqwest"
    ELSE IF op = "register" THEN "Registration"
    ELSE "Activation"

\* What a call returns: the result, the versions it sent requests for, and
\* the version the client holds afterwards.
Returned(ok, err, attempts, api_version, agent_enabled, registrar_supported) ==
    [ok |-> ok, err |-> err, attempts |-> attempts, api_version |-> api_version,
     agent_enabled |-> agent_enabled, registrar_supported |-> registrar_supported]

\* Variant: the enabled versions are walked oldest first.
NewestFirst_Forward(l) == l

\* enabled_api_versions.iter().rev()
NewestFirst(l) == [i \in 1..Len(l) |-> l[Len(l) - i + 1]]

\* The loop taken when the registrar's version is unknown, from the i-th
\* version of order on.
RECURSIVE UnknownLoop(_, _, _, _)
UnknownLoop(op, order, i, tried) ==
    IF i > Len(order)
    THEN Returned(FALSE, "AllAPIVersionsRejected", tried, client.api_version,
                  enabled_api_versions, <<>>)
    ELSE LET r == TryAgent(op, order[i])
             tried2 == Append(tried, order[i])
         IN  IF r = "ok"
             THEN Returned(TRUE, None, tried2, order[i], <<>>, <<>>)
             ELSE UnknownLoop(op, order, i + 1, tried2)

\* Variant: any version counts as supported.
VersionMatches_Any(api_version, supported) == Len(supported) > 0

\* supported.iter().any(|s| s.trim() == api_version.trim())
VersionMatches(api_version, supported) ==
    \E k \in 1..Len(supported) : Trim(supported[k]) = Trim(api_version)

\* Whether a failed attempt ends the supported-versions loop: register_agent
\* goes on only after an IncompatibleAPI error, activate_agent always goes on.
EndsLoop(op, r) == op = "register" /\ r # "IncompatibleAPI"

\* The loop taken when the registrar's version is known and not enabled.
RECURSIVE SupportedLoop(_, _, _, _)
SupportedLoop(op, order, i, tried) ==
    IF i > Len(order)
    THEN Returned(FALSE, "IncompatibleAPI", tried, client.api_version,
                  enabled_api_versions, client.supported_api_versions)
    ELSE IF ~VersionMatches(order[i], client.supported_api_versions)
    THEN SupportedLoop(op, order, i + 1, tried)
    ELSE LET r == TryAgent(op, order[i])
             tried2 == Append(tried, order[i])
         IN  IF r = "ok"
             THEN Returned(TRUE, None, tried2, Trim(order[i]), <<>>, <<>>)
             ELSE IF EndsLoop(op, r)
             THEN Returned(FALSE, r, tried2, client.api_version, <<>>, <<>>)
             ELSE SupportedLoop(op, order, i + 1, tried2)

\* Variant: a failed attempt with the cached version is not returned; the
\* call goes on with the loops.
AgentCall_FallsThrough(op) ==
    LET first == Contains(enabled_api_versions, client.api_version)
        r == IF first THEN TryAgent(op, client.api_version) ELSE "skipped"
        tried == IF first THEN <<client.api_version>> ELSE <<>>
    IN  IF r = "ok"
        THEN Returned(TRUE, None, tried, client.api_version, <<>>, <<>>)
        ELSE IF client.api_version = UNKNOWN_API_VERSION
        THEN UnknownLoop(op, NewestFirst(enabled_api_versions), 1, tried)
        ELSE IF client.has_supported
        THEN SupportedLoop(op, NewestFirst(enabled_api_versions), 1, tried)
        ELSE Returned(FALSE, "Inconsistent", tried, client.api_version, <<>>, <<>>)

\* register_agent / activate_agent as a whole.
AgentCall(op) ==
    IF Contains(enabled_api_versions, client.api_version)
    THEN LET r == TryAgent(op, client.api_version)
         IN  Returned(r = "ok", IF r = "ok" THEN None ELSE r,
                      <<client.api_version>>, client.api_version, <<>>, <<>>)
    ELSE IF client.api_version = UNKNOWN_API_VERSION
    THEN UnknownLoop(op, NewestFirst(enabled_api_versions), 1, <<>>)
    ELSE IF client.has_supported
    THEN SupportedLoop(op, NewestFirst(enabled_api_versions), 1, <<>>)
    ELSE Returned(FALSE, "Inconsistent", <<>>, client.api_version, <<>>, <<>>)

\* The version of the last request a call sent, if it sent any.
LastSent(call) ==
    IF call.attempts = <<>> THEN None ELSE call.attempts[Len(call.attempts)]

\* Variant: the version a call succeeded with is not kept by the client.
Call_NoCache(op) ==
    /\ LET out == AgentCall(op)
       IN  /\ client' = client
           /\ lastCall' = [op |-> op, before |-> client.api_version,
                           attempts |-> out.attempts, ok |-> out.ok,
                           err |-> out.err,
                           agent_enabled |-> out.agent_enabled,
                           registrar_supported |-> out.registrar_supported,
                           prevOp |-> lastCall.op, prevOk |-> lastCall.ok,
                           prevSent |-> LastSent(lastCall)]
    /\ UNCHANGED <<registrar, enabled_api_versions>>
    /\ UNCHANGED notReg

\* One call on the client: &mut self keeps the version it succeeded with.
Call(op) ==
    /\ LET out == AgentCall(op)
       IN  /\ client' = [client EXCEPT !.api_version = out.api_version]
           /\ lastCall' = [op |-> op, before |-> client.api_version,
                           attempts |-> out.attempts, ok |-> out.ok,
                           err |-> out.err,
                           agent_enabled |-> out.agent_enabled,
                           registrar_supported |-> out.registrar_supported,
                           prevOp |-> lastCall.op, prevOk |-> lastCall.ok,
                           prevSent |-> LastSent(lastCall)]
    /\ UNCHANGED <<registrar, enabled_api_versions>>
    /\ UNCHANGED notReg

\* register_agent on the client build returned.
RegisterAgent ==
    /\ client.built = "client"
    /\ Call("register")

\* activate_agent on the client build returned.
ActivateAgent ==
    /\ client.built = "client"
    /\ Call("activate")

\* The versions a registrar may accept in a request path.
AcceptedSets == SUBSET {"1.2", "3.4rc", "3.4RC"}

InitReg ==
    /\ \E pr \in ProbeOutcomes, cur \in Versions,
          sup \in SupportedLists(MaxSupported), acc \in AcceptedSets,
          f \in AttemptFailures, en \in VersionLists(MaxEnabled) :
          /\ pr # "ok" => cur = "1.2" /\ sup = <<"1.2">>
          /\ RegStart([probe |-> pr, current_version |-> cur,
                       supported_versions |-> sup, accepted |-> acc,
                       fail |-> f], en)
    /\ FilterStart("private_cloud", "trust", DefaultEndpoint)
    /\ CertStart("main", TRUE, {}, 0, 0)
    /\ TpmStart("main", TRUE, TRUE, TRUE)
    /\ AgentStart
    /\ ShutdownStart
    /\ BootStart(DefaultBootConfig)
    /\ ImaIdle
    /\ DetectIdle
    /\ RetryIdle

NextReg ==
    \/ Build
    \/ RegisterAgent
    \/ ActivateAgent

SpecReg == InitReg /\ [][NextReg]_vars

\* ------------------------------------------------------------------------
\* Registrar client: claims
\* ------------------------------------------------------------------------
\* A version with surrounding whitespace and letter case put aside.
Canon(v) == IF Trim(v) = "3.4RC" THEN "3.4rc" ELSE Trim(v)

\* The last call ran on a client still holding the version build gave it,
\* the registrar having answered the probe.
FreshCall(op) ==
    /\ lastCall.op = op
    /\ client.has_supported
    /\ lastCall.before = registrar.current_version

\* The registrar accepts exactly the versions of its supported list.
AcceptsSupported ==
    registrar.accepted =
        {Trim(registrar.supported_versions[k]) :
            k \in 1..Len(registrar.supported_versions)}

\* C14: for any agent-enabled list and registrar-supported list whose
\* intersection is non-empty when compared case-insensitively and ignoring
\* surrounding whitespace, register_agent succeeds on its first attempt
\* against a registrar that accepts exactly the versions in its supported
\* list, whatever the registrar reports as its current version.
C14_RegisterSucceedsFirstAttempt ==
    /\ FreshCall("register")
    /\ AcceptsSupported
    /\ \E i \in 1..Len(enabled_api_versions),
          k \in 1..Len(registrar.supported_versions) :
          Canon(enabled_api_versions[i]) = Canon(registrar.supported_versions[k])
    => lastCall.ok /\ Len(lastCall.attempts) = 1

\* The last call went through the supported-versions loop.
InSupportedLoop ==
    /\ lastCall.op \in {"register", "activate"}
    /\ lastCall.before # UNKNOWN_API_VERSION
    /\ ~(\E i \in 1..Len(enabled_api_versions) :
            enabled_api_versions[i] = lastCall.before)
    /\ client.has_supported

\* C15: in the supported-versions loop of both register_agent and
\* activate_agent, an attempt that fails with an error other than a version
\* incompatibility ends the loop: that error is returned as-is, no further
\* version is attempted, and it is never replaced by IncompatibleAPI.
C15_NonVersionErrorEndsLoop ==
    /\ InSupportedLoop
    /\ lastCall.attempts # <<>>
    /\ lastCall.attempts[1] \notin registrar.accepted
    => /\ ~lastCall.ok
       /\ Len(lastCall.attempts) = 1
       /\ lastCall.err = IF registrar.fail = "transport" THEN "Reqwest"
                         ELSE IF lastCall.op = "register" THEN "Registration"
                         ELSE "Activation"

\* C16: when the registrar's version is UNKNOWN, register_agent and
\* activate_agent attempt the agent-enabled versions in reverse list order
\* (newest first), stop at the first attempt that succeeds and cache that
\* version as the active one; if every enabled version fails they return
\* AllAPIVersionsRejected.
C16_UnknownTriesNewestFirst ==
    lastCall.op \in {"register", "activate"} /\ lastCall.before = UNKNOWN_API_VERSION =>
        LET n == Len(enabled_api_versions)
            a == lastCall.attempts
        IN  /\ Len(a) \in 1..n
            /\ \A i \in 1..Len(a) : a[i] = enabled_api_versions[n - i + 1]
            /\ \A i \in 1..(Len(a) - 1) : a[i] \notin registrar.accepted
            /\ IF a[Len(a)] \in registrar.accepted
               THEN lastCall.ok /\ client.api_version = a[Len(a)]
               ELSE /\ Len(a) = n
                    /\ ~lastCall.ok
                    /\ lastCall.err = "AllAPIVersionsRejected"
                    /\ client.api_version = UNKNOWN_API_VERSION

\* A call on an unknown version whose newest version failed and whose next
\* one succeeded.
C16_Witness ==
    /\ lastCall.op = "activate"
    /\ lastCall.before = UNKNOWN_API_VERSION
    /\ lastCall.ok
    /\ Len(lastCall.attempts) = 2
    /\ client.api_version = enabled_api_versions[1]

\* C17: when the registrar's current version is known and not
\* agent-enabled, and no agent-enabled version equals (after trimming
\* whitespace) any registrar-supported version, register_agent and
\* activate_agent return IncompatibleAPI carrying the agent-enabled list and
\* the registrar-supported list, without sending any register or activate
\* request and without changing the cached version.
C17_NoOverlapIsIncompatible ==
    /\ InSupportedLoop
    /\ \A i \in 1..Len(enabled_api_versions),
          k \in 1..Len(client.supported_api_versions) :
          Trim(enabled_api_versions[i]) # Trim(client.supported_api_versions[k])
    => /\ ~lastCall.ok
       /\ lastCall.err = "IncompatibleAPI"
       /\ lastCall.agent_enabled = enabled_api_versions
       /\ lastCall.registrar_supported = registrar.supported_versions
       /\ lastCall.attempts = <<>>
       /\ client.api_version = lastCall.before

\* A call that found no overlap, on lists that overlap only through letter
\* case, against a registrar that would have accepted a request.
C17_Witness ==
    /\ InSupportedLoop
    /\ lastCall.op = "register"
    /\ lastCall.err = "IncompatibleAPI"
    /\ lastCall.attempts = <<>>
    /\ enabled_api_versions = <<"3.4RC">>
    /\ registrar.supported_versions = <<"3.4rc">>
    /\ registrar.accepted = {"3.4rc", "3.4RC"}

\* C18 as stated: build probes GET /version; if the registrar is reachable
\* and answers, the client records its current_version and
\* supported_versions; in every other case (transport failure as well as a
\* non-success status) build still returns a client, with the current
\* version marked UNKNOWN.
C18_BuildAlwaysReturnsClient ==
    /\ client.built # None
    /\ lastCall.op = None
    /\ registrar.probe \in {"ok", "status", "transport"}
    => IF registrar.probe = "ok"
       THEN /\ client.built = "client"
            /\ client.api_version = registrar.current_version
            /\ client.has_supported
            /\ client.supported_api_versions = registrar.supported_versions
       ELSE /\ client.built = "client"
            /\ client.api_version = UNKNOWN_API_VERSION

\* C18, amended: a registrar that answers the probe gives the client its
\* current_version and supported_versions; a non-success status gives a
\* client with the version UNKNOWN and no supported list; a transport
\* failure or an undecodable answer makes build return the error and no
\* client.
C18_BuildClientOnlyOnAnswer ==
    /\ client.built # None
    /\ lastCall.op = None
    /\ registrar.probe \in {"ok", "status", "transport", "decode"}
    => CASE registrar.probe = "ok" ->
               /\ client.built = "client"
               /\ client.api_version = registrar.current_version
               /\ client.has_supported
               /\ client.supported_api_versions = registrar.supported_versions
         [] registrar.probe = "status" ->
               /\ client.built = "client"
               /\ client.api_version = UNKNOWN_API_VERSION
               /\ ~client.has_supported
         [] OTHER ->
               /\ client.built = "error"
               /\ client.err = "Reqwest"

\* build has returned after a transport failure of the probe.
C18_Witness ==
    /\ registrar.probe = "transport"
    /\ client.built = "error"

\* ------------------------------------------------------------------------
\* Agent startup: the attestation key
\* ------------------------------------------------------------------------
\* AgentData::valid(hash_alg, sign_alg, ek_hash)
Valid(data, triple) == data.triple = triple

\* TPM2_EvictControl makes a key persistent only at a handle not in use.
SlotFree == tpmSlot = 0

\* Variant: the persisted AK is taken whatever it was created for.
OldAk_NoCheck(triple, hasPath, fault) ==
    /\ hasPath
    /\ agentData.exists
    /\ fault # "load_data"
    /\ agentData.private = "real" /\ fault # "load_ak"

\* old_ak is Some: the file is there, loads, is valid for the current
\* configuration, and the TPM loads its AK under the EK.
OldAk(triple, hasPath, fault) ==
    /\ hasPath
    /\ agentData.exists
    /\ fault # "load_data"
    /\ Valid(agentData, triple)
    /\ agentData.private = "real" /\ fault # "load_ak"

\* What the AK part of a startup ends with: the key ak_handle refers to,
\* the key of the AKResult, its private part, the persistent handle, the
\* key held at that handle afterwards and the number of keys created.
Ak(path, ak_handle, ak, private, ph, slot, made) ==
    [ok |-> TRUE, path |-> path, ak_handle |-> ak_handle, ak |-> ak,
     private |-> private, ph |-> ph, slot |-> slot, made |-> made]

\* The startup returns an error from within the AK part.
Abort(path, slot, made) ==
    [ok |-> FALSE, path |-> path, ak_handle |-> 0, ak |-> 0,
     private |-> None, ph |-> FALSE, slot |-> slot, made |-> made]

\* The old AK is used: through the recorded persistent handle if there is
\* one, through the handle load_ak returned otherwise.
Reload(fault) ==
    IF agentData.ph
    THEN IF tpmSlot = 0 \/ fault = "load_persistent"
         THEN Abort("reload_persistent", tpmSlot, 0)
         ELSE Ak("reload_persistent", tpmSlot, agentData.ak, agentData.private,
                 TRUE, tpmSlot, 0)
    ELSE Ak("reload_transient", agentData.ak, agentData.ak, agentData.private,
            FALSE, tpmSlot, 0)

\* create_ak and load_ak of the TPM abstraction, after the tpm2 tools failed.
TssFallback(k, made) == Ak("tss", k, k, "real", FALSE, tpmSlot, made)

\* USE_TPM2_QUOTE_DIRECT with a persistent EK: tpm2 createak, then tpm2
\* evictcontrol to the persistent handle, which the TPM refuses when the
\* handle is taken.
CreateWithTools(fault) ==
    LET k == keysMade + 1 IN
    IF fault = "createak" THEN TssFallback(k, 1)
    ELSE IF ~SlotFree \/ fault = "evict" THEN TssFallback(k + 1, 2)
    ELSE IF fault = "load_persistent" THEN Abort("tools", k, 1)
    ELSE Ak("tools", k, k, "dummy", TRUE, k, 1)

\* create_ak and load_ak; with USE_TPM2_QUOTE_DIRECT the context is saved
\* and persisted, and the persistent handle is used when that worked.
CreateWithTss(direct, fault) ==
    LET k == keysMade + 1
        persisted == direct /\ fault \notin {"save_ctx", "persist"} /\ SlotFree
        slot == IF persisted THEN k ELSE tpmSlot
    IN  IF ~persisted THEN Ak("tss", k, k, "real", FALSE, slot, 1)
        ELSE IF fault = "load_persistent" THEN Abort("tss_persisted", slot, 1)
        ELSE Ak("tss_persisted", slot, k, "real", TRUE, slot, 1)

\* Variant: the stored AgentData always records a persistent handle.
NewAgentData_AlwaysPersistent(triple, res) ==
    [exists |-> TRUE, triple |-> triple, ak |-> res.ak,
     private |-> res.private, ph |-> TRUE]

\* AgentData::create(hash_alg, sign_alg, &ak, ek_hash) with
\* ak_persistent_handle set.
NewAgentData(triple, res) ==
    [exists |-> TRUE, triple |-> triple, ak |-> res.ak,
     private |-> res.private, ph |-> res.ph]

\* One start of the agent up to the registration, under configuration
\* triple, with agent_data_path set or not, USE_TPM2_QUOTE_DIRECT set or
\* not, the EK persistent or not, and at most one failing step.
Startup(triple, hasPath, direct, ekPersistent, fault) ==
    /\ LET old == OldAk(triple, hasPath, fault)
           res == IF old THEN Reload(fault)
                  ELSE IF direct /\ ekPersistent THEN CreateWithTools(fault)
                  ELSE CreateWithTss(direct, fault)
           stored == res.ok /\ hasPath /\ fault # "store"
       IN  /\ keysMade + res.made <= MaxKeys
           /\ keysMade' = keysMade + res.made
           /\ tpmSlot' = res.slot
           /\ agentData' = IF stored THEN NewAgentData(triple, res) ELSE agentData
           /\ run' = [done |-> IF res.ok /\ (hasPath => stored) THEN "ok" ELSE "error",
                      path |-> res.path, ak_handle |-> res.ak_handle,
                      ak |-> res.ak, persistent |-> res.ph, triple |-> triple,
                      old |-> old, stored |-> stored, prev |-> agentData,
                      hasPath |-> hasPath, fault |-> fault]
    /\ UNCHANGED notAgent

InitStartup ==
    /\ AgentStart
    /\ FilterStart("private_cloud", "trust", DefaultEndpoint)
    /\ CertStart("main", TRUE, {}, 0, 0)
    /\ TpmStart("main", TRUE, TRUE, TRUE)
    /\ RegIdle
    /\ ShutdownStart
    /\ BootStart(DefaultBootConfig)
    /\ ImaIdle
    /\ DetectIdle
    /\ RetryIdle

NextStartup ==
    \E triple \in Triples, hasPath \in BOOLEAN, direct \in BOOLEAN,
       ekPersistent \in BOOLEAN, fault \in Faults :
        Startup(triple, hasPath, direct, ekPersistent, fault)

SpecStartup == InitStartup /\ [][NextStartup]_vars

CleanRestart ==
    /\ run.done # None
    /\ run.hasPath /\ run.fault = "none"
    /\ run.prev.exists /\ run.prev.triple = run.triple

\* C21: persist-then-reload round trip: for every way the agent can create
\* and persist its AK on a first start, a restart with unchanged (ek_hash,
\* hash_alg, sign_alg) re-attaches the same AK (through the same persistent
\* handle when one was recorded) instead of generating a new one, over any
\* number of consecutive restarts.
C21_RestartReattachesAk ==
    CleanRestart =>
        /\ run.done = "ok"
        /\ run.old
        /\ run.ak = run.prev.ak
        /\ run.prev.ph => run.persistent /\ run.ak_handle = tpmSlot

\* C20: at startup a persisted AgentData is used only if its (ek_hash,
\* hash_alg, sign_alg) equal the current EK hash and configured algorithms;
\* otherwise the persisted AK is discarded, a new AK is created, and the
\* AgentData written afterwards describes the new AK with the current triple.
C20_AgentDataValidity ==
    /\ run.old => run.prev.exists /\ run.prev.triple = run.triple
    /\ run.done # None /\ run.prev.exists /\ run.prev.triple # run.triple =>
          /\ ~run.old
          /\ run.done = "ok" =>
                /\ run.ak # run.prev.ak
                /\ run.ak = keysMade
                /\ run.stored => /\ agentData.ak = run.ak
                                  /\ agentData.triple = run.triple
                                  /\ agentData.ph = run.persistent

\* A restart under another hash algorithm that replaced the AK and rewrote
\* the AgentData.
C20_Witness ==
    /\ run.done = "ok"
    /\ run.prev.exists
    /\ run.prev.triple = <<"ekA", "sha256", "rsassa">>
    /\ run.triple = <<"ekA", "sha384", "rsassa">>
    /\ run.ak # run.prev.ak
    /\ run.stored
    /\ agentData.ak = run.ak
    /\ agentData.triple = run.triple

\* ------------------------------------------------------------------------
\* Quote handlers: nonce handling
\* ------------------------------------------------------------------------
\* Worker p has answered an identity request.
IdentityDone(p) == tPc[p] = "done" /\ tReq[p].kind = "identity"

C12_IdentityAcceptsAlphanumeric ==
    \A p \in Procs :
        IdentityDone(p) /\ tReq[p].nonce \in {"a1b2", "HIJ1"} =>
            /\ tResp[p].status \in {200, 500}
            /\ tResp[p].status = 200 => tResp[p].ops = <<"quote">>

\* The integrity request of worker q got past the nonce checks.
IntegrityNonceAccepted(q) ==
    tResp[q].reason \notin {"nonce_alphanumeric", "nonce_too_long"}

\* C13: the identity and integrity endpoints apply one common nonce rule:
\* each accepts a nonce exactly when it is alphanumeric and its hex-decoded
\* byte length does not exceed the TPM's maximum, and each hands the
\* hex-decoded bytes to the TPM quote; hence every nonce is accepted or
\* rejected identically by both and bound as the same bytes.  (Integrity
\* requests with a well-formed mask and partial are compared.)
C13_CommonNonceRule ==
    \A p, q \in Procs :
        /\ IdentityDone(p)
        /\ tPc[q] = "done" /\ tReq[q].kind = "integrity"
        /\ tReq[q].mask = "0x8400" /\ tReq[q].partial = "0"
        /\ tReq[p].nonce = tReq[q].nonce
        => /\ (tResp[p].status = 400) <=> ~IntegrityNonceAccepted(q)
           /\ tResp[p].status = 200 /\ tResp[q].status = 200 =>
                  /\ tResp[p].qnonce = tResp[q].qnonce
                  /\ tResp[q].qnonce = <<"hex", tReq[q].nonce>>

\* ------------------------------------------------------------------------
\* Quote and geolocation endpoints: responses by configuration
\* ------------------------------------------------------------------------
\* Worker p has answered a request of the given kind.
DoneKind(p, kind) == tPc[p] = "done" /\ tReq[p].kind = kind

\* The handler of worker p's request has called the TPM operation op.
Took(p, op) == op \in {tResp[p].ops[i] : i \in 1..Len(tResp[p].ops)}

\* C24: attested_geolocation returns 403 when the unified-identity feature
\* flag is off and 404 when the flag is on but no sensor is detected, and in
\* both cases PCR 15 is left unchanged: the step that answers such a request
\* is the request's only step and does not touch PCR 15.
C24_GeolocationRejections ==
    [][\A p \in Procs :
          tPc[p] = "idle" /\ tPc'[p] # "idle" /\ tReq'[p].kind = "geolocation" =>
              /\ ~tUnified => tResp'[p].status = 403
              /\ tUnified /\ tResp'[p].geo = None => tResp'[p].status = 404
              /\ tResp'[p].status \in {403, 404} =>
                     /\ tPc'[p] = "done"
                     /\ pcr15' = pcr15
                     /\ tResp'[p].ops = <<>>]_vars

\* C24 witness: with PCR 15 already extended by an earlier request, a
\* request that found no sensor has been answered 404.
C24_Witness ==
    \E p \in Procs :
        /\ DoneKind(p, "geolocation")
        /\ tUnified /\ tResp[p].geo = None /\ tResp[p].status = 404
        /\ Len(pcr15) > 0

\* C25: in an integrity request, partial=0 yields a response that includes
\* the payload public key, partial=1 yields a response without it, and any
\* other value yields 400 with no TPM quote taken.
C25_PartialDecidesPubkey ==
    \A p \in Procs :
        DoneKind(p, "integrity") =>
            /\ tResp[p].status = 200 /\ tReq[p].partial = "0" => tResp[p].pubkey
            /\ tResp[p].status = 200 /\ tReq[p].partial = "1" => ~tResp[p].pubkey
            /\ tReq[p].partial \notin {"0", "1"} =>
                   tResp[p].status = 400 /\ ~Took(p, "quote")

\* C25 witness: both workers have answered 200, one to partial=0 and one
\* to partial=1.
C25_Witness ==
    \E p, q \in Procs :
        /\ IntegrityAnswered(p) /\ tReq[p].partial = "0" /\ tResp[p].pubkey
        /\ IntegrityAnswered(q) /\ tReq[q].partial = "1" /\ ~tResp[q].pubkey

\* C26: when the agent has no IMA log file, every valid integrity request
\* still succeeds with a quote and the response carries neither
\* ima_measurement_list nor ima_measurement_list_entry: the only requests
\* not answered 200 are those whose quote, public-key encoding or
\* measured-boot rewind failed, which fail the same way with an IMA log.
C26_NoImaFileStillQuotes ==
    \A p \in Procs :
        DoneKind(p, "integrity") /\ ~tImaFile =>
            /\ ~tResp[p].slice
            /\ IntegrityCheck(tReq[p], TRUE).status = 0
               /\ tResp[p].reason \notin {"pubkey", "quote", "rewind"} =>
                   tResp[p].status = 200 /\ Took(p, "quote")

\* C26 witness: without an IMA log, an integrity request whose mask selects
\* PCR 0 has been answered 200 with the measured-boot log and no IMA slice.
C26_Witness ==
    \E p \in Procs :
        /\ ~tImaFile
        /\ IntegrityAnswered(p) /\ Took(p, "quote")
        /\ tResp[p].mb /\ ~tResp[p].slice

CachedEnabled ==
    /\ lastCall.op # None
    /\ \E i \in 1..Len(enabled_api_versions) :
          enabled_api_versions[i] = lastCall.before

\* The errors a single register or activate request ends with.
AttemptErrors == {"Reqwest", "Registration", "Activation"}

\* C28 (as stated): in register_agent and activate_agent, when the cached
\* active version is in the agent-enabled list it is tried first; if that
\* attempt succeeds the call returns, and if it fails the call does not
\* return that failure but goes on with the rest of the version-selection
\* algorithm.
C28_FailedCachedVersionFallsThrough ==
    CachedEnabled =>
        /\ lastCall.attempts # <<>> /\ lastCall.attempts[1] = lastCall.before
        /\ lastCall.before \in registrar.accepted =>
               lastCall.ok /\ lastCall.attempts = <<lastCall.before>>
        /\ lastCall.before \notin registrar.accepted =>
               \/ Len(lastCall.attempts) > 1
               \/ lastCall.err \notin AttemptErrors

\* C28 (amended): in register_agent and activate_agent, when the cached
\* active version (initially the registrar's current version) is in the
\* agent-enabled list it is tried first and the call returns what that
\* attempt returns: success if it succeeds, and if it fails that failure,
\* with no other version tried and the cached version unchanged.
C28_CachedVersionResultReturned ==
    CachedEnabled =>
        /\ lastCall.attempts = <<lastCall.before>>
        /\ client.api_version = lastCall.before
        /\ lastCall.ok <=> lastCall.before \in registrar.accepted
        /\ ~lastCall.ok => lastCall.err \in AttemptErrors

\* C28 witness: the cached version is enabled and rejected, another enabled
\* version would have been accepted, and the call has failed after the one
\* request.
C28_Witness ==
    /\ CachedEnabled
    /\ ~lastCall.ok
    /\ lastCall.attempts = <<lastCall.before>>
    /\ \E i \in 1..Len(enabled_api_versions) :
          /\ enabled_api_versions[i] \in registrar.accepted
          /\ VersionMatches(enabled_api_versions[i], client.supported_api_versions)

\* C29: API-version caching across the protocol: after register_agent has
\* succeeded with version v on a client, the following activate_agent on
\* the same client sends its first request with that same version v, for
\* every enabled list (including entries with surrounding whitespace) and
\* every registrar version state.
C29_ActivateStartsWithRegisteredVersion ==
    lastCall.op = "activate" /\ lastCall.prevOp = "register" /\ lastCall.prevOk =>
        /\ lastCall.attempts # <<>>
        /\ lastCall.attempts[1] = lastCall.prevSent

\* C29 witness: register_agent succeeded in a loop with a version that is
\* neither the registrar's current one nor the newest enabled one, the
\* enabled list has a padded entry, and activate_agent then sent that
\* version first.
C29_Witness ==
    /\ lastCall.op = "activate" /\ lastCall.prevOp = "register" /\ lastCall.prevOk
    /\ lastCall.attempts # <<>>
    /\ lastCall.attempts[1] = lastCall.prevSent
    /\ lastCall.prevSent # registrar.current_version
    /\ lastCall.prevSent # enabled_api_versions[Len(enabled_api_versions)]
    /\ \E i \in 1..Len(enabled_api_versions) : enabled_api_versions[i] = " 1.2 "

\* ------------------------------------------------------------------------
\* main.rs: shutdown_task and the HTTP server
\* ------------------------------------------------------------------------
\* A client connects; the listener is open only while the server runs.
Connect(c) ==
    /\ server = "running"
    /\ conns[c] = "idle"
    /\ conns' = [conns EXCEPT ![c] = "queued"]
    /\ UNCHANGED <<signalled, server, chans, shutdownPc>>
    /\ UNCHANGED notShut

\* The server accepts a connection and its request handler starts.
Accept(c) ==
    /\ server = "running"
    /\ conns[c] = "queued"
    /\ conns' = [conns EXCEPT ![c] = "handling"]
    /\ UNCHANGED <<signalled, server, chans, shutdownPc>>
    /\ UNCHANGED notShut

\* A request handler returns its response.
HandlerReturns(c) ==
    /\ conns[c] = "handling"
    /\ conns' = [conns EXCEPT ![c] = "idle"]
    /\ UNCHANGED <<signalled, server, chans, shutdownPc>>
    /\ UNCHANGED notShut

\* Lines 1266-1276: select! over SIGINT and SIGTERM.
Signal(sig) ==
    /\ shutdownPc = "select"
    /\ signalled' = sig
    /\ shutdownPc' = "stop"
    /\ UNCHANGED <<server, conns, chans>>
    /\ UNCHANGED notShut

\* Line 1281: server_handle.stop(true) hands the graceful Stop command to
\* the server, which closes its listener; the future it returns is awaited
\* at line 1291.
ServerHandleStop ==
    /\ shutdownPc = "stop"
    /\ server' = "stopping"
    /\ shutdownPc' = "send_payload"
    /\ UNCHANGED <<signalled, conns, chans>>
    /\ UNCHANGED notShut

\* tx.send(msg); as a statement: Sender::send is an async fn, the future it
\* returns is dropped without being polled, and nothing enters the channel.
UnawaitedSend(queue, msg) == queue

\* Lines 1282-1288: the Shutdown message for worker w, in the order
\* payload, keys, revocation.
SendShutdown(w) ==
    LET at == CASE w = "payload" -> "send_payload" [] w = "keys" -> "send_keys"
                [] OTHER -> "send_revocation"
        next == CASE w = "payload" -> "send_keys" [] w = "keys" -> "send_revocation"
                  [] OTHER -> "await"
    IN  /\ shutdownPc = at
        /\ chans' = [chans EXCEPT ![w] = UnawaitedSend(@, "Shutdown")]
        /\ shutdownPc' = next
        /\ UNCHANGED <<signalled, server, conns>>
        /\ UNCHANGED notShut

\* The graceful stop completes: no handler is running any more; connections
\* never accepted are dropped.
ServerStopped ==
    /\ server = "stopping"
    /\ \A c \in Conns : conns[c] # "handling"
    /\ server' = "stopped"
    /\ conns' = [c \in Conns |-> "idle"]
    /\ UNCHANGED <<signalled, chans, shutdownPc>>
    /\ UNCHANGED notShut

\* Line 1291: server_stop.await
AwaitServerStop ==
    /\ shutdownPc = "await"
    /\ server = "stopped"
    /\ shutdownPc' = "done"
    /\ UNCHANGED <<signalled, server, conns, chans>>
    /\ UNCHANGED notShut

InitShutdown ==
    /\ ShutdownStart
    /\ BootStart(DefaultBootConfig)
    /\ ImaIdle
    /\ DetectIdle
    /\ FilterStart("private_cloud", "trust", DefaultEndpoint)
    /\ CertStart("main", TRUE, {}, 0, 0)
    /\ TpmStart("main", TRUE, TRUE, TRUE)
    /\ RegIdle
    /\ AgentStart
    /\ RetryIdle

NextShutdown ==
    \/ \E c \in Conns : Connect(c)
    \/ \E c \in Conns : Accept(c)
    \/ \E c \in Conns : HandlerReturns(c)
    \/ \E sig \in {"SIGINT", "SIGTERM"} : Signal(sig)
    \/ ServerHandleStop
    \/ \E w \in Workers : SendShutdown(w)
    \/ ServerStopped
    \/ AwaitServerStop

SpecShutdown == InitShutdown /\ [][NextShutdown]_vars

\* The runtime keeps polling the tasks it has spawned: shutdown_task goes on
\* from statement to statement, handlers return, and the server completes
\* a stop it was asked for.
SpecShutdownFair ==
    /\ InitShutdown /\ [][NextShutdown]_vars
    /\ WF_vars(ServerHandleStop)
    /\ \A w \in Workers : WF_vars(SendShutdown(w))
    /\ \A c \in Conns : WF_vars(HandlerReturns(c))
    /\ WF_vars(ServerStopped)
    /\ WF_vars(AwaitServerStop)

\* The tasks main spawns and joins.
Tasks == Workers \cup {"server", "shutdown"}

\* A Shutdown message has entered worker w's channel.
Delivered(w) == \E i \in 1..Len(chans[w]) : chans[w][i] = "Shutdown"

\* A task has run to its end: the server once stopped, shutdown_task after
\* server_stop.await, a worker once it has drained its channel down to the
\* Shutdown message.
TaskFinished(t) ==
    CASE t = "server" -> server = "stopped"
      [] t = "shutdown" -> shutdownPc = "done"
      [] OTHER -> Delivered(t)

\* try_join!(server_task, payload_task, key_task, revocation_task,
\* shutdown_task) completes, and main returns its result.
MainReturns == \A t \in Tasks : TaskFinished(t)

\* C22: shutdown ordering: after SIGINT or SIGTERM the server first stops
\* accepting new connections and lets pending handlers complete, and only
\* then do the payload, keys and revocation worker channels receive a
\* Shutdown message; no worker is told to shut down while a request handler
\* is still running.  As a property of states: a channel holds a Shutdown
\* message only once the server has stopped with no handler running, and
\* when shutdown_task has run to its end every worker channel has received
\* its Shutdown message.
C22_ShutdownOrdering ==
    /\ \A w \in Workers :
          chans[w] # <<>> =>
              /\ server = "stopped"
              /\ \A c \in Conns : conns[c] # "handling"
    /\ shutdownPc = "done" => \A w \in Workers : chans[w] = <<"Shutdown">>

\* C36: after SIGINT or SIGTERM each of the payload, keys and revocation
\* workers is eventually delivered a Shutdown message, every spawned task
\* (server, workers, shutdown task) finishes, and main returns.
C36_ShutdownCompletes ==
    (signalled # None) ~> ((\A w \in Workers : Delivered(w)) /\ MainReturns)

\* ------------------------------------------------------------------------
\* main.rs: from the registration to the running server
\* ------------------------------------------------------------------------
\* Variant: a failed registration ends the startup.
AfterRegistration_ErrorStops(result) ==
    IF result = "ok" THEN "revocation_cert" ELSE "failed_registration"

\* match register_agent(aa, &mut ctx).await: both arms fall through to the
\* statements that follow.
AfterRegistration(result) == "revocation_cert"

\* Err(e) => error!("Failed to register agent: {e:?}").
RegistrationLog(result) ==
    IF result = "ok" THEN bootLog
    ELSE Append(bootLog, <<"Failed to register agent", result>>)

\* register_agent(aa, &mut ctx).await with retry_config None.
MainRegisterAgent(result) ==
    /\ bootPc = "register"
    /\ bootReg' = result
    /\ bootLog' = RegistrationLog(result)
    /\ bootPc' = AfterRegistration(result)
    /\ UNCHANGED <<bootCfg, bootServed>>
    /\ UNCHANGED notBoot

\* match config.revocation_cert.as_ref(): "" returns a configuration
\* error; otherwise the revocation worker is spawned and the HttpServer put
\* together.
RevocationCert ==
    /\ bootPc = "revocation_cert"
    /\ IF bootCfg.revocation_cert = ""
       THEN /\ bootPc' = "failed_configuration"
            /\ bootLog' = Append(bootLog,
                   <<"No revocation certificate set in 'revocation_cert' option", None>>)
       ELSE /\ bootPc' = "bind"
            /\ bootLog' = bootLog
    /\ UNCHANGED <<bootCfg, bootReg, bootServed>>
    /\ UNCHANGED notBoot

\* What the scope of an API version and the App around it route: the quote,
\* delegated-certification and geolocation endpoints, and /version.
ApiResources ==
    {"quotes/identity", "quotes/integrity",
     "delegated_certification/certify_app_key",
     "agent/attested_geolocation", "version"}

\* config.ip.parse::<IpAddr>(): an IPv6 address is put in brackets, an
\* IPv4 address and a host name are used as they are.
BindIp(ip) == IF ip = "::1" THEN "[::1]" ELSE ip

\* bind_openssl(..)? or bind(..)?, then run() and rt::spawn(server).
Bind ==
    /\ bootPc = "bind"
    /\ IF bootCfg.bindable
       THEN /\ bootPc' = "serving"
            /\ bootServed' = [scheme |-> IF bootCfg.mtls THEN "https" ELSE "http",
                              ip |-> BindIp(bootCfg.ip),
                              resources |-> ApiResources]
       ELSE /\ bootPc' = "failed_bind"
            /\ bootServed' = bootServed
    /\ UNCHANGED <<bootCfg, bootReg, bootLog>>
    /\ UNCHANGED notBoot

InitBoot ==
    /\ \E cfg \in BootConfigs : BootStart(cfg)
    /\ AgentStart
    /\ FilterStart("private_cloud", "trust", DefaultEndpoint)
    /\ CertStart("main", TRUE, {}, 0, 0)
    /\ TpmStart("main", TRUE, TRUE, TRUE)
    /\ RegIdle
    /\ ShutdownStart
    /\ ImaIdle
    /\ DetectIdle
    /\ RetryIdle

NextBoot ==
    \/ \E result \in RegistrationResults : MainRegisterAgent(result)
    \/ RevocationCert
    \/ Bind

SpecBoot == InitBoot /\ [][NextBoot]_vars

\* C40: the registration attempt has completed, with success or with an
\* error, before the HTTP server is bound; when it ends in an error the
\* agent only logs it and goes on as after a success, so the startup
\* stops only where it stops after a successful registration (no
\* revocation certificate, address not bindable) and the bound server
\* serves the quote, delegated-certification and geolocation endpoints.
C40_RegistrationFailureDoesNotStopStartup ==
    /\ [](bootPc \in {"bind", "serving"} \/ bootServed.scheme # None
            => bootReg \in RegistrationResults)
    /\ [][bootPc = "register" /\ bootReg' # "ok"
            => /\ bootPc' = "revocation_cert"
               /\ bootLog' = Append(bootLog, <<"Failed to register agent", bootReg'>>)
               /\ bootServed' = bootServed]_vars
    /\ [](bootPc \in {"failed_registration", "failed_configuration", "failed_bind"}
            => bootCfg.revocation_cert = "" \/ ~bootCfg.bindable)
    /\ [](bootReg \notin {None, "ok"} /\ bootPc = "serving"
            => {"quotes/identity", "quotes/integrity",
                "delegated_certification/certify_app_key",
                "agent/attested_geolocation"} \subseteq bootServed.resources)

C40_Witness ==
    /\ bootReg = "registrar_unreachable"
    /\ bootLog = <<(<<"Failed to register agent", "registrar_unreachable">>)>>
    /\ bootPc = "serving"
    /\ bootServed.scheme = "https"
    /\ "delegated_certification/certify_app_key" \in bootServed.resources

\* ------------------------------------------------------------------------
\* registrar_client.rs: the send path of one request
\* ------------------------------------------------------------------------
\* Variant: the agent's main configures retries.
AgentMainRetryConfig_Set ==
    [set |-> TRUE, initial |-> 1, max_retries |-> MaxRetries,
     capped |-> TRUE, max |-> 3]

\* main.rs line 1062: AgentRegistration { .., retry_config: None }
AgentMainRetryConfig == NoRetryConfig

\* Which requests go through the ResilientClient: the version probe and the
\* register request when a retry configuration was given; the activate
\* request always uses a plain reqwest::Client.
Resilient(kind, cfg) == cfg.set /\ kind \in {"version", "register"}

\* The delay before re-send number i + 1: min(initial * 2^i, max).
Backoff(cfg, i) ==
    LET d == cfg.initial * 2 ^ i
    IN  IF cfg.capped /\ d > cfg.max THEN cfg.max ELSE d

\* A caller starts a request of the given kind against a registrar that
\* answers the sends as script says.
RetryRequest(kind, caller, cfg, script) ==
    /\ rq.pc = "idle"
    /\ caller = "agent_main" => cfg = AgentMainRetryConfig
    /\ rq' = [NoRq EXCEPT !.pc = "sending", !.kind = kind, !.caller = caller,
                          !.cfg = cfg, !.script = script]
    /\ UNCHANGED notRetry

\* One send and what follows it: the response is handed on when its status
\* is 200 (the declared success set), or when no re-send is left; otherwise
\* the client sleeps.
RetrySend ==
    /\ rq.pc = "sending"
    /\ LET outcome == rq.script[rq.sends + 1]
           again == /\ outcome # "200"
                    /\ Resilient(rq.kind, rq.cfg)
                    /\ Len(rq.delays) < rq.cfg.max_retries
       IN  rq' = IF again
                 THEN [rq EXCEPT !.sends = @ + 1, !.pc = "backoff",
                                 !.delays = Append(@, Backoff(rq.cfg, Len(@)))]
                 ELSE [rq EXCEPT !.sends = @ + 1, !.pc = "done",
                                 !.result = IF outcome = "200" THEN "ok" ELSE outcome]
    /\ UNCHANGED notRetry

\* The delay has passed.
RetryWake ==
    /\ rq.pc = "backoff"
    /\ rq' = [rq EXCEPT !.pc = "sending"]
    /\ UNCHANGED notRetry

\* The caller has the result; the client is free for the next request.
RetryReturn ==
    /\ rq.pc = "done"
    /\ rq' = NoRq
    /\ UNCHANGED notRetry

InitRetry ==
    /\ RetryIdle
    /\ FilterStart("private_cloud", "trust", DefaultEndpoint)
    /\ CertStart("main", TRUE, {}, 0, 0)
    /\ TpmStart("main", TRUE, TRUE, TRUE)
    /\ RegIdle
    /\ AgentStart
    /\ ShutdownStart
    /\ BootStart(DefaultBootConfig)
    /\ ImaIdle
    /\ DetectIdle

NextRetry ==
    \/ \E kind \in {"version", "register", "activate"},
          caller \in {"agent_main", "other"}, cfg \in RetryConfigs,
          script \in Scripts : RetryRequest(kind, caller, cfg, script)
    \/ RetrySend
    \/ RetryWake
    \/ RetryReturn

SpecRetry == InitRetry /\ [][NextRetry]_vars

\* A version probe or register request has ended in a failure that is
\* reported to the caller.
FailureReported ==
    /\ rq.pc = "done"
    /\ rq.kind \in {"version", "register"}
    /\ rq.result # "ok"

\* The delays slept so far are min(initial * 2^i, max) for i = 0, 1, ...
DelaysFollowPolicy ==
    \A i \in 1..Len(rq.delays) :
        rq.delays[i] = IF rq.cfg.capped /\ rq.cfg.initial * 2 ^ (i - 1) > rq.cfg.max
                       THEN rq.cfg.max
                       ELSE rq.cfg.initial * 2 ^ (i - 1)

\* C23 (as stated): the agent's exchange with the registrar is retried: a
\* version probe or register request that fails in transport or returns any
\* HTTP status other than 200 is re-sent with delay_i = min(initial * 2^i,
\* max) for up to max_retries attempts before the failure is reported to
\* the version-selection logic.
C23_ExchangeRetried ==
    FailureReported =>
        /\ rq.cfg.set
        /\ rq.sends = 1 + rq.cfg.max_retries
        /\ Len(rq.delays) = rq.cfg.max_retries
        /\ DelaysFollowPolicy

\* C23 (amended): when the registrar client is built with a retry
\* configuration, a version probe or register request that fails in
\* transport or returns any HTTP status other than 200 is re-sent with
\* delay_i = min(initial * 2^i, max) for up to max_retries attempts before
\* the failure is reported to the version-selection logic; the agent's main
\* builds it without one, and then the request is sent once and its failure
\* reported at once.
C23_RetriedWhenConfigured ==
    /\ rq.caller = "agent_main" => ~rq.cfg.set
    /\ Len(rq.delays) = (IF rq.pc \in {"backoff", "sending"} THEN rq.sends
                         ELSE IF rq.sends = 0 THEN 0 ELSE rq.sends - 1)
    /\ DelaysFollowPolicy
    /\ FailureReported =>
          IF rq.cfg.set
          THEN rq.sends = 1 + rq.cfg.max_retries
          ELSE rq.sends = 1 /\ rq.delays = <<>>
    /\ rq.pc = "done" =>
          \A i \in 1..(rq.sends - 1) : rq.script[i] # "200"

\* C23 witness: with a capped retry configuration a register request failed
\* on every send, first in transport and last by status, and the failure
\* was reported after max_retries re-sends, the last delay being the cap.
C23_Witness ==
    /\ FailureReported
    /\ rq.kind = "register"
    /\ rq.cfg.set /\ rq.cfg.capped /\ rq.cfg.max_retries > 0
    /\ rq.sends = 1 + rq.cfg.max_retries
    /\ rq.script[1] = "transport" /\ rq.result = "status"
    /\ rq.delays[Len(rq.delays)] = rq.cfg.max
    /\ rq.delays[1] < rq.cfg.max

\* ------------------------------------------------------------------------
\* Sensor detection: the two detect_geolocation_sensor functions
\* ------------------------------------------------------------------------
\* A line of lsusb output: the keyword its lower-cased text contains, and
\* where its "ID " stands: followed by "<id> <name>" ("spaced"), by "<id>"
\* at the end of the line ("last"), or missing ("none").
UsbLines ==
    {[kw |-> k, id |-> i] :
        k \in {"mobile", "gnss", "plain"}, i \in {"spaced", "last", "none"}}

RECURSIVE SeqsUpTo(_, _)
SeqsUpTo(S, n) ==
    IF n = 0 THEN {<<>>}
    ELSE LET shorter == SeqsUpTo(S, n - 1)
         IN  shorter \cup {Append(q, x) : q \in {r \in shorter : Len(r) = n - 1}, x \in S}

\* The host: lsusb's output (ok = FALSE when it cannot be run), whether one of
\* the GNSS device nodes exists, where get_imei_imsi_huawei.sh is installed
\* and the IMEI and IMSI lines it prints.
Hosts ==
    [lsusb : {[ok |-> FALSE, lines |-> <<>>]}
                \cup {[ok |-> TRUE, lines |-> l] : l \in SeqsUpTo(UsbLines, MaxLines)},
     node : BOOLEAN,
     script : {None, "cwd", "usr_local_bin"},
     imeiLine : {None, "Modem IMEI: 861", "Modem IMEI: Unknown", "SIM IMEI: 861"},
     imsiLine : {None, "SIM IMSI: 310"}]

\* quotes_handler.rs extract_usb_id: the text after "ID " up to the next
\* space, or all of it when no space follows.
QuoteExtractUsbId(line) ==
    IF line.id \in {"spaced", "last"} THEN "12d1:1433" ELSE "unknown"

\* geolocation_handler.rs extract_usb_id: the text after "ID " up to the
\* next space; "unknown" when no space follows.
GeoExtractUsbId(line) ==
    IF line.id = "spaced" THEN "12d1:1433" ELSE "unknown"

\* quotes_handler.rs get_imei_imsi: bash <path> for the paths under
\* /home/mw, ./ and the bare name; "Modem IMEI:" and "SIM IMSI:" lines.
QuoteGetImeiImsi(host) ==
    LET ran == host.script = "cwd"
        imei == IF ran /\ host.imeiLine = "Modem IMEI: 861" THEN "861" ELSE None
        imsi == IF ran /\ host.imsiLine = "SIM IMSI: 310" THEN "310" ELSE None
    IN  [imei |-> imei, imsi |-> imsi]

\* geolocation_handler.rs get_imei_imsi: the existing one of
\* /usr/local/bin, ./ and ../; "SIM IMEI:" and "SIM IMSI:" lines.
GeoGetImeiImsi(host) ==
    LET ran == host.script \in {"usr_local_bin", "cwd"}
        imei == IF ran /\ host.imeiLine = "SIM IMEI: 861" THEN "861" ELSE None
        imsi == IF ran /\ host.imsiLine = "SIM IMSI: 310" THEN "310" ELSE None
    IN  [imei |-> imei, imsi |-> imsi]

\* The loop over lsusb's lines and the device-node fallback, which the two
\* functions share word for word; usbId and ids are the caller's own
\* extract_usb_id and get_imei_imsi.
RECURSIVE ScanLines(_, _, _, _, _)
ScanLines(lines, i, usbId, ids, node) ==
    IF i > Len(lines)
    THEN IF node
         THEN [found |-> TRUE, type |-> "gnss", sensor_id |-> "/dev/ttyUSB0",
               imei |-> None, imsi |-> None]
         ELSE NoSensor
    ELSE IF lines[i].kw = "mobile"
    THEN [found |-> TRUE, type |-> "mobile", sensor_id |-> usbId[i],
          imei |-> ids.imei, imsi |-> ids.imsi]
    ELSE IF lines[i].kw = "gnss"
    THEN [found |-> TRUE, type |-> "gnss", sensor_id |-> usbId[i],
          imei |-> None, imsi |-> None]
    ELSE ScanLines(lines, i + 1, usbId, ids, node)

\* "match Command::new("lsusb").output()": no line is looked at on Err.
LinesOf(host) == IF host.lsusb.ok THEN host.lsusb.lines ELSE <<>>

\* detect_geolocation_sensor of quotes_handler.rs.
QuoteDetectGeolocationSensor(host) ==
    LET lines == LinesOf(host)
    IN  ScanLines(lines, 1, [i \in 1..Len(lines) |-> QuoteExtractUsbId(lines[i])],
                  QuoteGetImeiImsi(host), host.node)

\* detect_geolocation_sensor of geolocation_handler.rs.
GeoDetectGeolocationSensor(host) ==
    LET lines == LinesOf(host)
    IN  ScanLines(lines, 1, [i \in 1..Len(lines) |-> GeoExtractUsbId(lines[i])],
                  GeoGetImeiImsi(host), host.node)

\* The agent runs on a host.
DetectHost(host) ==
    /\ ~det.hostSet
    /\ det' = [det EXCEPT !.host = host, !.hostSet = TRUE]
    /\ UNCHANGED notDet

\* The identity quote handler detects the sensor.
QuoteDetect ==
    /\ det.hostSet /\ ~det.quoteSet
    /\ det' = [det EXCEPT !.quote = QuoteDetectGeolocationSensor(det.host),
                          !.quoteSet = TRUE]
    /\ UNCHANGED notDet

\* The attested-geolocation handler detects the sensor.
GeoDetect ==
    /\ det.hostSet /\ ~det.geoSet
    /\ det' = [det EXCEPT !.geo = GeoDetectGeolocationSensor(det.host),
                          !.geoSet = TRUE]
    /\ UNCHANGED notDet

InitDetect ==
    /\ DetectIdle
    /\ FilterStart("private_cloud", "trust", DefaultEndpoint)
    /\ CertStart("main", TRUE, {}, 0, 0)
    /\ TpmStart("main", TRUE, TRUE, TRUE)
    /\ RegIdle
    /\ AgentStart
    /\ ShutdownStart
    /\ BootStart(DefaultBootConfig)
    /\ ImaIdle
    /\ RetryIdle

NextDetect ==
    \/ \E host \in Hosts : DetectHost(host)
    \/ QuoteDetect
    \/ GeoDetect

SpecDetect == InitDetect /\ [][NextDetect]_vars

\* C34: the sensor detection of the identity quote handler and that of the
\* attested-geolocation handler return the same result (sensor found or
\* not, sensor type, sensor_id, IMEI, IMSI) for every USB enumeration
\* output, device-node presence and information-script output.
C34_SameDetection ==
    det.quoteSet /\ det.geoSet => det.quote = det.geo

\* ------------------------------------------------------------------------
\* IMA locks: the measurement-list part of the integrity handler
\* ------------------------------------------------------------------------
\* Variant: the file mutex is locked before the MeasurementList mutex.
ImaLockOrder_FileFirst == <<"file", "state">>

\* "let mut ima_ml = data.ima_ml.lock()" and then, as the argument of
\* ima_ml.read, "ima_file.lock()".
ImaLockOrder == <<"state", "file">>

\* MeasurementList::read: the remembered offset after reading a file of
\* len entries.
MlRead(offset, len) == len

\* An integrity request reaches "Generate the measurement list" with an IMA
\* file configured.
ImaBegin(p) ==
    /\ mPc[p] = "idle"
    /\ mCount < MaxTpmRequests
    /\ mCount' = mCount + 1
    /\ mPc' = [mPc EXCEPT ![p] = "acquire"]
    /\ UNCHANGED <<mLock, mHeld, mOffset, mLen, mUpdate>>
    /\ UNCHANGED notIma

\* Mutex::lock of the next lock in the handler's order; it waits while
\* another worker holds it.
ImaAcquire(p) ==
    /\ mPc[p] = "acquire"
    /\ LET l == ImaLockOrder[Len(mHeld[p]) + 1] IN
          /\ mLock[l] = None
          /\ mLock' = [mLock EXCEPT ![l] = p]
          /\ mHeld' = [mHeld EXCEPT ![p] = Append(@, l)]
    /\ mPc' = [mPc EXCEPT ![p] = IF Len(mHeld[p]) + 1 = Len(ImaLockOrder)
                                  THEN "read" ELSE "acquire"]
    /\ UNCHANGED <<mOffset, mLen, mUpdate, mCount>>
    /\ UNCHANGED notIma

\* ima_ml.read(&mut file, nth_entry): Ok updates the remembered offset.
ImaReadEntries(p, ok) ==
    /\ mPc[p] = "read"
    /\ IF ok
       THEN /\ mOffset' = MlRead(mOffset, mLen)
            /\ mUpdate' = [by |-> p, locks |-> {l \in ImaLocks : mLock[l] = p}]
       ELSE UNCHANGED <<mOffset, mUpdate>>
    /\ mPc' = [mPc EXCEPT ![p] = "release"]
    /\ UNCHANGED <<mLock, mHeld, mLen, mCount>>
    /\ UNCHANGED notIma

\* The guards are dropped in reverse order: the temporary file guard at the
\* end of the match, the ima_ml guard at the end of the block.
ImaRelease(p) ==
    /\ mPc[p] = "release"
    /\ LET l == mHeld[p][Len(mHeld[p])] IN
          /\ mLock' = [mLock EXCEPT ![l] = None]
          /\ mHeld' = [mHeld EXCEPT ![p] = SubSeq(@, 1, Len(@) - 1)]
    /\ mPc' = [mPc EXCEPT ![p] = IF Len(mHeld[p]) = 1 THEN "idle" ELSE "release"]
    /\ UNCHANGED <<mOffset, mLen, mUpdate, mCount>>
    /\ UNCHANGED notIma

\* The kernel appends a measurement to the IMA log.
KernelAppend ==
    /\ mLen < MaxIma
    /\ mLen' = mLen + 1
    /\ UNCHANGED <<mLock, mPc, mHeld, mOffset, mUpdate, mCount>>
    /\ UNCHANGED notIma

InitIma ==
    /\ ImaIdle
    /\ FilterStart("private_cloud", "trust", DefaultEndpoint)
    /\ CertStart("main", TRUE, {}, 0, 0)
    /\ TpmStart("main", TRUE, TRUE, TRUE)
    /\ RegIdle
    /\ AgentStart
    /\ ShutdownStart
    /\ BootStart(DefaultBootConfig)
    /\ RetryIdle
    /\ DetectIdle

NextIma ==
    \/ \E p \in Procs : ImaBegin(p)
    \/ \E p \in Procs : ImaAcquire(p)
    \/ \E p \in Procs, ok \in BOOLEAN : ImaReadEntries(p, ok)
    \/ \E p \in Procs : ImaRelease(p)
    \/ KernelAppend

SpecIma == InitIma /\ [][NextIma]_vars

\* C35 (as stated): the offset-state lock is acquired inside the file lock:
\* a worker holding the state lock holds the file lock (taken first), and
\* the offset is updated while the file lock is held.
C35_StateLockInsideFileLock ==
    /\ \A p \in Procs : mLock["state"] = p => mLock["file"] = p
    /\ mUpdate.by # None => "file" \in mUpdate.locks

\* C35 (amended): the file lock is acquired inside the offset-state lock: a
\* worker holding the file lock holds the state lock (taken first, released
\* last), and the offset is updated while both locks are held.
C35_FileLockInsideStateLock ==
    /\ \A p \in Procs :
          /\ mLock["file"] = p => mLock["state"] = p
          /\ mHeld[p] \in {<<>>, <<"state">>, <<"state", "file">>}
    /\ mUpdate.by # None => mUpdate.locks = {"state", "file"}

\* C35 witness: one worker read the list and updated the offset under both
\* locks, has given the file lock back and still holds the state lock,
\* while the other worker waits for the state lock.
C35_Witness ==
    \E p, q \in Procs :
        /\ p # q
        /\ mUpdate.by = p /\ mUpdate.locks = {"state", "file"}
        /\ mLock["state"] = p /\ mLock["file"] = None
        /\ mPc[p] = "release"
        /\ mPc[q] = "acquire" /\ mHeld[q] = <<>>

====
